---- MODULE Spec2Model ----
(***************************************************************************)
(* A model of YAtiML's type-directed recognition and loading pipeline,     *)
(* of the construction of objects from loaded nodes and of dumping        *)
(* (Spec), of the node-rewriting helpers of helpers.Node (RewriteSpec)     *)
(* and of the JSON emitter of dumper.Dumper (EmitSpec).                    *)
(*                                                                         *)
(* A yaml node is a record [kind, tag, value, items]: a scalar carries its *)
(* text in value, a sequence its item nodes in items, a mapping its        *)
(* [key, val] pairs in items.  A type (what Python's typing objects stand  *)
(* for) is a record [t, name, args].  A recognition error is the tuple     *)
(* (message, causes) of irecognizer.py, as a record [msg, causes].         *)
(* Source positions (start_mark) are left out of nodes and messages.       *)
(***************************************************************************)
EXTENDS Integers, Sequences, FiniteSets, TLC

VARIABLES
    registry,   \* Loader._registered_classes: ordered dict tag -> class
    node,       \* the yaml node handed to the recognizer / loader
    expected,   \* the expected type (the document type)
    history,    \* one record per completed call on node, in call order
    phase,      \* "ready" | "loaded" | "constructed" | "made" |
                \* "represented" | "failed"
    object,     \* the Python object constructed from node or to be dumped
    dumper      \* the Dumper that emits JSON: its state stack, indent, stream

vars == <<registry, node, expected, history, phase, object, dumper>>

RECURSIVE Recognize(_, _), RecognizeUserClasses(_, _, _)
RECURSIVE RecognizeListFrom(_, _, _), RecognizeDictFrom(_, _, _)
RECURSIVE RecognizeUnionFrom(_, _, _, _, _), AutoRecognizeFrom(_, _, _)
RECURSIVE RecognizeSubclassesFrom(_, _, _, _, _)
RECURSIVE ProcessItemsFrom(_, _, _, _), ProcessValuesFrom(_, _, _, _)
RECURSIVE ProcessAttributesFrom(_, _, _, _), ProcessNode(_, _)
RECURSIVE TypeToDesc(_)

(***************************************************************************)
(* Tags                                                                    *)
(***************************************************************************)
TagStr == "tag:yaml.org,2002:str"
TagInt == "tag:yaml.org,2002:int"
TagFloat == "tag:yaml.org,2002:float"
TagBool == "tag:yaml.org,2002:bool"
TagNull == "tag:yaml.org,2002:null"
TagTimestamp == "tag:yaml.org,2002:timestamp"
TagSeq == "tag:yaml.org,2002:seq"
TagMap == "tag:yaml.org,2002:map"

\* tag.startswith('tag:yaml.org,2002'), over the tags of the model
StartsWithYamlOrg(tag) ==
    tag \in {TagStr, TagInt, TagFloat, TagBool, TagNull, TagTimestamp,
             TagSeq, TagMap}

(***************************************************************************)
(* Nodes                                                                   *)
(***************************************************************************)
ScalarNode(tag, value) ==
    [kind |-> "scalar", tag |-> tag, value |-> value, items |-> <<>>]

SequenceNode(tag, items) ==
    [kind |-> "sequence", tag |-> tag, value |-> "", items |-> items]

MappingNode(tag, pairs) ==
    [kind |-> "mapping", tag |-> tag, value |-> "", items |-> pairs]

Pair(key_node, value_node) == [key |-> key_node, val |-> value_node]

(***************************************************************************)
(* Types                                                                   *)
(***************************************************************************)
Scalar(kind) == [t |-> "scalar", name |-> kind, args |-> <<>>]
Additional(name) == [t |-> "additional", name |-> name, args |-> <<>>]
UnionOf(args) == [t |-> "union", name |-> "", args |-> args]
ListOf(item_type) == [t |-> "list", name |-> "", args |-> <<item_type>>]
DictOf(key_type, value_type) ==
    [t |-> "dict", name |-> "", args |-> <<key_type, value_type>>]
Class(name) == [t |-> "class", name |-> name, args |-> <<>>]
AnyType == [t |-> "any", name |-> "Any", args |-> <<>>]

\* the first test of Recognizer.recognize: str, int, float, bool,
\* bool_union_fix, date, None
ScalarKinds == {"str", "int", "float", "bool", "bool_union_fix", "date", "None"}

scalar_type_to_tag(kind) ==
    CASE kind = "str" -> TagStr
      [] kind = "int" -> TagInt
      [] kind = "float" -> TagFloat
      [] kind = "bool" -> TagBool
      [] kind = "bool_union_fix" -> TagBool
      [] kind = "None" -> TagNull
      [] kind = "date" -> TagTimestamp

is_generic_union(type_) == type_.t = "union"
is_generic_sequence(type_) == type_.t = "list"
is_generic_mapping(type_) == type_.t = "dict"
generic_type_args(type_) == type_.args

(***************************************************************************)
(* Classes: what Python's reflection gives for each class of a scenario.   *)
(*   bases      cls.__bases__ (the user classes among them)                *)
(*   abstract   derives directly from ABC or has abstract methods          *)
(*   enum       issubclass(cls, enum.Enum)                                 *)
(*   stringlike issubclass(cls, (str, UserString, String))                 *)
(*   recognize  the class's own _yatiml_recognize, or op "none"            *)
(*   savorize   the yatiml_savorize the class has (hasattr), or op "none"  *)
(*   args, ndefaults, annotations: inspect.getfullargspec(cls.__init__)    *)
(***************************************************************************)
NoHook == [op |-> "none", attribute |-> "", value |-> ""]
RequireAttributeValueHook(attribute, value) ==
    [op |-> "require_attribute_value", attribute |-> attribute, value |-> value]
RequireScalarStrHook == [op |-> "require_scalar", attribute |-> "", value |-> "str"]
RemoveAttributeHook(attribute) ==
    [op |-> "remove_attribute", attribute |-> attribute, value |-> ""]
SetAttributeHook(attribute, value) ==
    [op |-> "set_attribute", attribute |-> attribute, value |-> value]
SetValueHook(value) == [op |-> "set_value", attribute |-> "", value |-> value]
MakeMappingHook == [op |-> "make_mapping", attribute |-> "", value |-> ""]
\* a hook that assigns something that is no yaml.Node to node.yaml_node
ClearNodeHook == [op |-> "clear", attribute |-> "", value |-> ""]

ClassDef(bases, abstract, enum, stringlike, recognize, savorize, args, ndefaults, annotations) ==
    [bases |-> bases, abstract |-> abstract, enum |-> enum,
     stringlike |-> stringlike, recognize |-> recognize,
     savorize |-> savorize, args |-> args, ndefaults |-> ndefaults,
     annotations |-> annotations]

Plain(bases, args, ndefaults, annotations) ==
    ClassDef(bases, FALSE, FALSE, FALSE, NoHook, NoHook, args, ndefaults,
             annotations)

ClassNames ==
    {"Super", "SubA", "SubB", "Super3", "SubA3", "SubB3", "Super3Clone",
     "Abstract", "Concrete", "Base", "Mid", "Leaf",
     "Color", "MyStr", "Postcode", "Document", "Setting", "Mode", "Flag",
     "Text", "Note", "Unregistered",
     "Figure", "Circle", "Band", "Ring", "Blob", "Oval", "Plate", "Dish",
     "Label", "Badge",
     "Smudge", "Tint", "Scrawl",
     "Extensible", "Expandable", "Lenient", "Private", "BrokenPrivate"}

Classes(name) ==
    CASE name = "Super" ->
           Plain(<<>>, <<"self", "subclass">>, 0, [subclass |-> Scalar("str")])
      [] name = "SubA" ->
           ClassDef(<<"Super">>, FALSE, FALSE, FALSE,
                    RequireAttributeValueHook("subclass", "A"), NoHook,
                    <<"self", "subclass">>, 0, [subclass |-> Scalar("str")])
      [] name = "SubB" ->
           ClassDef(<<"Super">>, FALSE, FALSE, FALSE,
                    RequireAttributeValueHook("subclass", "B"),
                    RemoveAttributeHook("subclass"),
                    <<"self", "subclass">>, 0, [subclass |-> Scalar("str")])
      [] name = "Super3" ->
           Plain(<<>>, <<"self", "attr">>, 0, [attr |-> Scalar("str")])
      [] name = "SubA3" ->
           Plain(<<"Super3">>, <<"self", "attr">>, 0, [attr |-> Scalar("str")])
      [] name = "SubB3" ->
           Plain(<<"Super3">>, <<"self", "attr">>, 0, [attr |-> Scalar("str")])
      [] name = "Super3Clone" ->
           Plain(<<>>, <<"self", "attr">>, 0, [attr |-> Scalar("str")])
      [] name = "Abstract" ->
           ClassDef(<<>>, TRUE, FALSE, FALSE, NoHook, NoHook,
                    <<"self", "attr">>, 0, [attr |-> Scalar("int")])
      [] name = "Concrete" ->
           Plain(<<"Abstract">>, <<"self", "attr", "attr_2">>, 0,
                 [attr |-> Scalar("int"), attr_2 |-> Scalar("str")])
      [] name = "Base" ->
           Plain(<<>>, <<"self", "attr", "attr_2">>, 1,
                 [attr |-> Scalar("str"), attr_2 |-> Scalar("str")])
      [] name = "Mid" ->
           Plain(<<"Base">>, <<"self", "attr", "attr_2">>, 0,
                 [attr |-> Scalar("str"), attr_2 |-> Scalar("str")])
      [] name = "Leaf" ->
           ClassDef(<<"Mid">>, FALSE, FALSE, FALSE,
                    RequireAttributeValueHook("attr", "A"), NoHook,
                    <<"self", "attr", "attr_2">>, 0,
                    [attr |-> Scalar("str"), attr_2 |-> Scalar("str")])
      [] name = "Color" ->
           ClassDef(<<>>, FALSE, TRUE, FALSE, NoHook, NoHook,
                    <<"self">>, 0, << >>)
      [] name = "MyStr" ->
           ClassDef(<<>>, FALSE, FALSE, TRUE, NoHook, NoHook,
                    <<"self", "seq">>, 0, << >>)
      [] name = "Postcode" ->
           ClassDef(<<>>, FALSE, FALSE, FALSE, RequireScalarStrHook, NoHook,
                    <<"self", "digits", "letters">>, 0,
                    [digits |-> Scalar("int"), letters |-> Scalar("str")])
      [] name = "Document" ->
           Plain(<<>>, <<"self", "attr", "color">>, 1,
                 [attr |-> ListOf(Scalar("int")), color |-> Class("Color")])
      [] name = "Setting" ->
           ClassDef(<<>>, TRUE, FALSE, FALSE, NoHook, NoHook,
                    <<"self">>, 0, << >>)
      [] name = "Mode" ->
           Plain(<<"Setting">>, <<"self", "attr">>, 0, [attr |-> Class("Color")])
      [] name = "Flag" ->
           Plain(<<"Setting">>, <<"self", "attr">>, 0, [attr |-> Scalar("bool")])
      [] name = "Text" ->
           Plain(<<"Setting">>, <<"self", "attr">>, 0, [attr |-> Scalar("str")])
      [] name = "Note" ->
           Plain(<<>>, <<"self", "attr">>, 0,
                 [attr |-> UnionOf(<<Scalar("str"), Class("MyStr")>>)])
      [] name = "Unregistered" ->
           Plain(<<>>, <<"self">>, 0, << >>)
      [] name = "Figure" ->
           ClassDef(<<>>, FALSE, FALSE, FALSE, NoHook,
                    RemoveAttributeHook("kind"),
                    <<"self", "name">>, 0, [name |-> Scalar("str")])
      [] name = "Circle" ->
           ClassDef(<<"Figure">>, FALSE, FALSE, FALSE, NoHook,
                    RemoveAttributeHook("round"),
                    <<"self", "name">>, 0, [name |-> Scalar("str")])
      [] name = "Band" ->
           ClassDef(<<"Figure">>, FALSE, FALSE, FALSE, NoHook,
                    RemoveAttributeHook("kind"),
                    <<"self", "name">>, 0, [name |-> Scalar("str")])
      [] name = "Ring" ->
           ClassDef(<<"Band">>, FALSE, FALSE, FALSE, NoHook,
                    RemoveAttributeHook("kind"),
                    <<"self", "name">>, 0, [name |-> Scalar("str")])
      [] name = "Blob" ->    \* defines no hook: has the one of Figure
           ClassDef(<<"Figure">>, FALSE, FALSE, FALSE, NoHook,
                    RemoveAttributeHook("kind"),
                    <<"self", "name">>, 0, [name |-> Scalar("str")])
      [] name = "Oval" ->
           ClassDef(<<"Circle", "Band">>, FALSE, FALSE, FALSE, NoHook,
                    RemoveAttributeHook("kind"),
                    <<"self", "name">>, 0, [name |-> Scalar("str")])
      [] name = "Plate" ->
           ClassDef(<<>>, FALSE, FALSE, FALSE, NoHook, MakeMappingHook,
                    <<"self", "name">>, 0, [name |-> Scalar("str")])
      [] name = "Dish" ->
           ClassDef(<<"Plate">>, FALSE, FALSE, FALSE, NoHook,
                    SetAttributeHook("name", "A"),
                    <<"self", "name">>, 0, [name |-> Scalar("str")])
      [] name = "Label" ->
           ClassDef(<<>>, FALSE, FALSE, FALSE, RequireScalarStrHook,
                    MakeMappingHook, <<"self">>, 0, << >>)
      [] name = "Badge" ->
           ClassDef(<<"Label">>, FALSE, FALSE, FALSE, RequireScalarStrHook,
                    MakeMappingHook, <<"self">>, 0, << >>)
      [] name = "Smudge" ->
           Plain(<<>>, <<"self", "name">>, 0, [name |-> Scalar("str")])
      [] name = "Tint" ->
           ClassDef(<<>>, FALSE, TRUE, FALSE, NoHook, NoHook,
                    <<"self">>, 0, << >>)
      [] name = "Scrawl" ->
           ClassDef(<<>>, FALSE, FALSE, TRUE, NoHook, NoHook,
                    <<"self", "seq">>, 0, << >>)
      [] name = "Extensible" ->
           Plain(<<>>, <<"self", "a", "yatiml_extra">>, 0,
                 [a |-> Scalar("int"),
                  yatiml_extra |-> Additional("OrderedDict")])
      [] name = "Expandable" ->
           Plain(<<>>, <<"self", "a", "_yatiml_extra">>, 0,
                 [a |-> Scalar("int"),
                  _yatiml_extra |-> Additional("OrderedDict")])
      [] name = "Lenient" ->
           Plain(<<>>, <<"self", "a", "yatiml_extra">>, 1,
                 [a |-> Scalar("int"),
                  yatiml_extra |-> Additional("OrderedDict")])
      [] name = "Private" ->
           Plain(<<>>, <<"self", "a", "b">>, 0,
                 [a |-> Scalar("int"), b |-> Scalar("str")])
      [] name = "BrokenPrivate" ->
           Plain(<<>>, <<"self", "a", "b">>, 0,
                 [a |-> Scalar("int"), b |-> Scalar("str")])

\* the _yatiml_sweeten the class defines itself ('_yatiml_sweeten' in
\* class_.__dict__), or op "none"
SweetenHook(name) ==
    CASE name = "Figure" -> SetAttributeHook("kind", "figure")
      [] name = "Circle" -> SetAttributeHook("round", "x")
      [] name = "Label" -> SetValueHook("A")
      [] name = "Badge" -> SetValueHook("x")
      [] name \in {"Smudge", "Tint", "Scrawl"} -> ClearNodeHook
      [] OTHER -> NoHook

\* the class whose __dict__ holds the yatiml_savorize that the class has:
\* the class itself, or the base it has the hook from
SavorizeDefinedBy(name) == IF name = "Blob" THEN "Figure" ELSE name

\* what the class's _yatiml_attributes returns: "dict" for an OrderedDict
\* of its fields under their public names, "None" for None, "" if the
\* class has no such method
AttributesHook(name) ==
    CASE name = "Private" -> "dict"
      [] name = "BrokenPrivate" -> "None"
      [] OTHER -> ""

\* attr_name.replace('_', '-'), over the attribute names of the model
ReplaceUndersWithDashes(name) ==
    IF name = "attr_2" THEN "attr-2" ELSE name

\* the tag add_to_loader registers a class under: '!{}'.format(__name__)
ClassTag(name) ==
    CASE name = "Super" -> "!Super" [] name = "SubA" -> "!SubA"
      [] name = "SubB" -> "!SubB" [] name = "Super3" -> "!Super3"
      [] name = "SubA3" -> "!SubA3" [] name = "SubB3" -> "!SubB3"
      [] name = "Super3Clone" -> "!Super3Clone"
      [] name = "Abstract" -> "!Abstract" [] name = "Concrete" -> "!Concrete"
      [] name = "Base" -> "!Base" [] name = "Mid" -> "!Mid"
      [] name = "Leaf" -> "!Leaf" [] name = "Color" -> "!Color"
      [] name = "Note" -> "!Note"
      [] name = "MyStr" -> "!MyStr" [] name = "Postcode" -> "!Postcode"
      [] name = "Document" -> "!Document" [] name = "Setting" -> "!Setting"
      [] name = "Mode" -> "!Mode" [] name = "Flag" -> "!Flag"
      [] name = "Text" -> "!Text" [] name = "Unregistered" -> "!Unregistered"
      [] name = "Figure" -> "!Figure" [] name = "Circle" -> "!Circle"
      [] name = "Band" -> "!Band" [] name = "Ring" -> "!Ring"
      [] name = "Blob" -> "!Blob" [] name = "Oval" -> "!Oval"
      [] name = "Plate" -> "!Plate" [] name = "Dish" -> "!Dish"
      [] name = "Label" -> "!Label" [] name = "Badge" -> "!Badge"
      [] name = "Smudge" -> "!Smudge" [] name = "Tint" -> "!Tint"
      [] name = "Scrawl" -> "!Scrawl"
      [] name = "Extensible" -> "!Extensible"
      [] name = "Expandable" -> "!Expandable"
      [] name = "Lenient" -> "!Lenient" [] name = "Private" -> "!Private"
      [] name = "BrokenPrivate" -> "!BrokenPrivate"

\* registering the classes in the given order: one entry per class
add_to_loader(classes) ==
    [i \in 1..Len(classes) |-> [tag |-> ClassTag(classes[i]), class |-> classes[i]]]

RegisteredTags == {registry[i].tag : i \in 1..Len(registry)}
RegisteredClasses == {registry[i].class : i \in 1..Len(registry)}
\* self.__registered_classes[tag]
RegisteredClass(tag) ==
    registry[CHOOSE i \in 1..Len(registry) : registry[i].tag = tag].class

is_abstract(name) == Classes(name).abstract

\* base in cls.__bases__
InBases(base, name) ==
    \E i \in 1..Len(Classes(name).bases) : Classes(name).bases[i] = base

\* issubclass(type_, (str, UserString, String)) for a class, the isclass()
\* test of __recognize_dict included: unions, generics and Any are no classes
IsStringLikeClass(type_) ==
    \/ type_.t = "scalar" /\ type_.name = "str"
    \/ type_.t = "class" /\ Classes(type_.name).stringlike

RECURSIVE ClassSubobjectsFrom(_, _)
ClassSubobjectsFrom(name, i) ==
    LET argspec == Classes(name)
        first_optional == Len(argspec.args) - argspec.ndefaults
        attr_name == argspec.args[i]
        attr_type == IF attr_name \in DOMAIN argspec.annotations
                     THEN argspec.annotations[attr_name]
                     ELSE AnyType
    IN  IF i > Len(argspec.args) THEN <<>>
        ELSE (IF attr_name = "self" \/ attr_name = "_yatiml_extra"
              THEN <<>>
              ELSE <<[name |-> attr_name, type |-> attr_type,
                      required |-> (i - 1) < first_optional]>>)
             \o ClassSubobjectsFrom(name, i + 1)

\* introspection.class_subobjects: (name, type, required) per attribute
class_subobjects(name) == ClassSubobjectsFrom(name, 1)

(***************************************************************************)
(* Recognition errors and results                                          *)
(***************************************************************************)
Msg(text, about, key) == [text |-> text, about |-> about, key |-> key]
NoMsg == Msg("", {}, "")
RecError(message, causes) == [msg |-> message, causes |-> causes]
REC_OK == RecError(NoMsg, <<>>)

\* what a call of the recognizer leaves behind: the returned (types, error),
\* the node as the call left it, and the exception it raised ("" if none)
Result(types, err, after) ==
    [types |-> types, err |-> err, node |-> after, exc |-> ""]
Raised(exc, after) ==
    [types |-> {}, err |-> REC_OK, node |-> after, exc |-> exc]

RECURSIVE DescList(_, _)
DescList(types, i) ==
    IF i > Len(types) THEN <<>>
    ELSE TypeToDesc(types[i]) \o DescList(types, i + 1)

\* util.type_to_desc, as a sequence of words
TypeToDesc(type_) ==
    IF type_.t = "scalar" /\ type_.name \in {"str", "int", "float", "bool", "None"}
    THEN <<CASE type_.name = "str" -> "a string"
             [] type_.name = "int" -> "an int"
             [] type_.name = "float" -> "a float"
             [] type_.name = "bool" -> "a boolean"
             [] type_.name = "None" -> "a null value">>
    ELSE IF is_generic_union(type_)
    THEN <<"any one of">> \o DescList(generic_type_args(type_), 1)
    ELSE IF is_generic_sequence(type_)
    THEN <<"a list of">> \o TypeToDesc(generic_type_args(type_)[1])
    ELSE IF is_generic_mapping(type_)
    THEN <<"a dict of string to">> \o TypeToDesc(generic_type_args(type_)[2])
    ELSE IF type_.t = "any"
    THEN <<"a string, int, float, boolean, null value, list or dict">>
    ELSE <<"a(n)", type_.name>>

(***************************************************************************)
(* helpers.Node and helpers.UnknownNode                                    *)
(***************************************************************************)
has_attribute(n, attribute) ==
    \E i \in 1..Len(n.items) : n.items[i].key.value = attribute

AttributeMatches(n, attribute) ==
    {i \in 1..Len(n.items) : n.items[i].key.value = attribute}

\* get_attribute raises SeasoningError unless exactly one key matches
GetAttributeRaises(n, attribute) ==
    Cardinality(AttributeMatches(n, attribute)) # 1

AttrIndex(n, attribute) ==
    CHOOSE i \in AttributeMatches(n, attribute) :
        \A j \in AttributeMatches(n, attribute) : i <= j

get_attribute(n, attribute) == n.items[AttrIndex(n, attribute)].val

\* the mapping with the value node at index i replaced (the value node is
\* shared with the mapping, so a change of it is a change of the mapping)
WithValue(n, i, value_node) ==
    [n EXCEPT !.items[i].val = value_node]

is_scalar(n, kind) ==
    n.kind = "scalar" /\ n.tag = scalar_type_to_tag(kind)

\* Node.get_value of a string scalar: str(value)
get_value(n) == n.value

RECURSIVE RequireAttributeValueFrom(_, _, _, _, _)
RequireAttributeValueFrom(n, attribute, value, i, found) ==
    IF i > Len(n.items)
    THEN (IF found THEN "" ELSE "Required key not found")
    ELSE IF n.items[i].key.tag = TagStr /\ n.items[i].key.value = attribute
    THEN (IF ~is_scalar(n.items[i].val, "str")
          THEN "Incorrect attribute type"
          ELSE IF get_value(n.items[i].val) # value
          THEN "Incorrect attribute value"
          ELSE RequireAttributeValueFrom(n, attribute, value, i + 1, TRUE))
    ELSE RequireAttributeValueFrom(n, attribute, value, i + 1, found)

\* UnknownNode.require_attribute_value with a str value: the message of the
\* RecognitionError it raises, "" if it returns
require_attribute_value(n, attribute, value) ==
    IF n.kind # "mapping" THEN "A mapping is required here"
    ELSE RequireAttributeValueFrom(n, attribute, value, 1, FALSE)

\* UnknownNode.require_scalar(str)
require_scalar(n, kind) ==
    IF is_scalar(n, kind) THEN "" ELSE "A scalar of type is required"

\* cls._yatiml_recognize(unode) for the hooks of the model
RunRecognizeHook(hook, n) ==
    IF hook.op = "require_attribute_value"
    THEN require_attribute_value(n, hook.attribute, hook.value)
    ELSE require_scalar(n, hook.value)

(***************************************************************************)
(* recognizer.Recognizer                                                   *)
(***************************************************************************)
ExpectedMsg(type_) == Msg("Expected", {type_}, "")

\* RecognizeScalar letting an int pass for a float
RecognizeScalarCoercing(n, expected_type) ==
    IF n.kind = "scalar"
       /\ (n.tag = scalar_type_to_tag(expected_type.name)
           \/ (expected_type.name = "float" /\ n.tag = TagInt))
    THEN Result({expected_type}, REC_OK, n)
    ELSE Result({}, RecError(ExpectedMsg(expected_type), <<>>), n)

RecognizeScalar(n, expected_type) ==
    IF n.kind = "scalar" /\ n.tag = scalar_type_to_tag(expected_type.name)
    THEN Result({expected_type}, REC_OK, n)
    ELSE Result({}, RecError(ExpectedMsg(expected_type), <<>>), n)

RecognizeAdditional(n, expected_type) ==
    IF expected_type.name = "Path" /\ n.kind = "scalar" /\ n.tag = TagStr
    THEN Result({expected_type}, REC_OK, n)
    ELSE Result({}, RecError(ExpectedMsg(expected_type), <<>>), n)

\* one iteration of the loop of __recognize_list: r is what recognize()
\* returned for item i
RecognizeListItem(n, expected_type, i, r) ==
    IF r.exc # "" THEN Raised(r.exc, [n EXCEPT !.items[i] = r.node])
    ELSE IF Cardinality(r.types) = 0
    THEN Result({}, RecError(ExpectedMsg(expected_type), <<r.err>>),
                [n EXCEPT !.items[i] = r.node])
    ELSE IF Cardinality(r.types) > 1
    THEN Result({ListOf(t) : t \in r.types}, r.err,
                [n EXCEPT !.items[i] = r.node])
    ELSE RecognizeListFrom([n EXCEPT !.items[i] = r.node], expected_type, i + 1)

\* the loop of __recognize_list from item i on; n carries the items as the
\* earlier iterations left them
RecognizeListFrom(n, expected_type, i) ==
    IF i > Len(n.items) THEN Result({expected_type}, REC_OK, n)
    ELSE RecognizeListItem(
             n, expected_type, i,
             Recognize(n.items[i], generic_type_args(expected_type)[1]))

RecognizeList(n, expected_type) ==
    IF n.kind # "sequence"
    THEN Result({}, RecError(Msg("Expected a list", {}, ""), <<>>), n)
    ELSE RecognizeListFrom(n, expected_type, 1)

\* the second half of an iteration of __recognize_dict: v is what
\* recognize() returned for the value of entry i
RecognizeDictValue(n, expected_type, i, v) ==
    IF v.exc # "" THEN Raised(v.exc, WithValue(n, i, v.node))
    ELSE IF Cardinality(v.types) = 0
    THEN Result({}, v.err, WithValue(n, i, v.node))
    ELSE IF Cardinality(v.types) > 1
    THEN Result({DictOf(generic_type_args(expected_type)[1], t) :
                    t \in v.types}, v.err, WithValue(n, i, v.node))
    ELSE RecognizeDictFrom(WithValue(n, i, v.node), expected_type, i + 1)

\* the first half: k is what recognize() returned for the key of entry i
RecognizeDictKey(n, expected_type, i, k) ==
    IF k.exc # "" THEN Raised(k.exc, [n EXCEPT !.items[i].key = k.node])
    ELSE IF Cardinality(k.types) = 0
    THEN Result({}, k.err, [n EXCEPT !.items[i].key = k.node])
    ELSE IF Cardinality(k.types) > 1
    THEN Result({DictOf(t, generic_type_args(expected_type)[2]) :
                    t \in k.types}, k.err, [n EXCEPT !.items[i].key = k.node])
    ELSE RecognizeDictValue(
             [n EXCEPT !.items[i].key = k.node], expected_type, i,
             Recognize(n.items[i].val, generic_type_args(expected_type)[2]))

\* the loop of __recognize_dict from entry i on
RecognizeDictFrom(n, expected_type, i) ==
    IF i > Len(n.items) THEN Result({expected_type}, REC_OK, n)
    ELSE RecognizeDictKey(
             n, expected_type, i,
             Recognize(n.items[i].key, generic_type_args(expected_type)[1]))

\* RecognizeDict reporting a key type that is not string-like as a failure
\* to recognize
RecognizeDictLenient(n, expected_type) ==
    IF ~IsStringLikeClass(generic_type_args(expected_type)[1])
       \/ n.kind # "mapping"
    THEN Result({}, RecError(Msg("Expected a dict/mapping here", {}, ""),
                             <<>>), n)
    ELSE RecognizeDictFrom(n, expected_type, 1)

RecognizeDict(n, expected_type) ==
    LET key_type == generic_type_args(expected_type)[1]
    IN  IF ~IsStringLikeClass(key_type) THEN Raised("RuntimeError", n)
        ELSE IF n.kind # "mapping"
        THEN Result({}, RecError(Msg("Expected a dict/mapping here", {}, ""),
                                 <<>>), n)
        ELSE RecognizeDictFrom(n, expected_type, 1)

\* one iteration of the loop of __recognize_union: r is what recognize()
\* returned for alternative i
RecognizeUnionAlternative(union_types, i, recognized_types, causes, r) ==
    IF r.exc # ""
    THEN [types |-> {}, causes |-> causes, node |-> r.node, exc |-> r.exc]
    ELSE RecognizeUnionFrom(
             r.node, union_types, i + 1, recognized_types \cup r.types,
             IF Cardinality(r.types) = 0 THEN Append(causes, r.err)
             ELSE causes)

\* the loop of __recognize_union from alternative i on
RecognizeUnionFrom(n, union_types, i, recognized_types, causes) ==
    IF i > Len(union_types)
    THEN [types |-> recognized_types, causes |-> causes, node |-> n,
          exc |-> ""]
    ELSE RecognizeUnionAlternative(union_types, i, recognized_types, causes,
                                   Recognize(n, union_types[i]))

\* RemoveBoolUnionFix without the removal
KeepBoolUnionFix(recognized_types) == recognized_types

\* "if bool in recognized_types and bool_union_fix in recognized_types"
RemoveBoolUnionFix(recognized_types) ==
    IF Scalar("bool") \in recognized_types
       /\ Scalar("bool_union_fix") \in recognized_types
    THEN recognized_types \ {Scalar("bool_union_fix")}
    ELSE recognized_types

\* UnionOutcome that returns several types without a message
UnionOutcomeSilent(loop, recognized_types) ==
    IF loop.exc # "" THEN Raised(loop.exc, loop.node)
    ELSE IF Cardinality(recognized_types) = 0
    THEN Result(recognized_types,
                RecError(Msg("Expected one of the following types, but failed to match all of them",
                             {}, ""), loop.causes),
                loop.node)
    ELSE Result(recognized_types, REC_OK, loop.node)

\* what __recognize_union makes of the loop's outcome
UnionOutcome(loop, recognized_types) ==
    IF loop.exc # "" THEN Raised(loop.exc, loop.node)
    ELSE IF Cardinality(recognized_types) = 0
    THEN Result(recognized_types,
                RecError(Msg("Expected one of the following types, but failed to match all of them",
                             {}, ""), loop.causes),
                loop.node)
    ELSE IF Cardinality(recognized_types) > 1
    THEN Result(recognized_types,
                RecError(Msg("Could not determine which of the following types this is",
                             recognized_types, ""), loop.causes),
                loop.node)
    ELSE Result(recognized_types, REC_OK, loop.node)

UnionLoopDone(loop) == UnionOutcome(loop, RemoveBoolUnionFix(loop.types))

RecognizeUnion(n, expected_type) ==
    UnionLoopDone(RecognizeUnionFrom(n, generic_type_args(expected_type), 1,
                                     {}, <<>>))

\* the attribute of the node that stands for attr_name: the name itself or,
\* failing that, attr_name.replace('_', '-')
PresentName(n, attr_name) ==
    IF has_attribute(n, attr_name) THEN attr_name
    ELSE ReplaceUndersWithDashes(attr_name)

\* the body of the attribute loop once the attribute was found under name:
\* r is what recognize() returned for its value
AutoRecognizeAttribute(n, expected_type, i, name, r) ==
    IF r.exc # "" THEN Raised(r.exc, WithValue(n, AttrIndex(n, name), r.node))
    ELSE IF Cardinality(r.types) = 0
    THEN Result({}, RecError(Msg("Error in attribute", {}, name), <<r.err>>),
                WithValue(n, AttrIndex(n, name), r.node))
    ELSE AutoRecognizeFrom(WithValue(n, AttrIndex(n, name), r.node),
                           expected_type, i + 1)

\* a loop that lets a missing required attribute pass
AutoRecognizeStepAllOptional(n, expected_type, i, attr, name) ==
    IF has_attribute(n, name)
    THEN (IF GetAttributeRaises(n, name) THEN Raised("SeasoningError", n)
          ELSE AutoRecognizeAttribute(
                   n, expected_type, i, name,
                   Recognize(get_attribute(n, name), attr.type)))
    ELSE AutoRecognizeFrom(n, expected_type, i + 1)

\* one attribute of the loop
AutoRecognizeStep(n, expected_type, i, attr, name) ==
    IF has_attribute(n, name)
    THEN (IF GetAttributeRaises(n, name) THEN Raised("SeasoningError", n)
          ELSE AutoRecognizeAttribute(
                   n, expected_type, i, name,
                   Recognize(get_attribute(n, name), attr.type)))
    ELSE IF attr.required
    THEN Result({}, RecError(Msg("Expected a key but it was not found",
                                 {expected_type}, attr.name), <<>>), n)
    ELSE AutoRecognizeFrom(n, expected_type, i + 1)

\* the attribute loop of __recognize_user_class from attribute i on, the
\* inner loop over [attr_name, attr_name.replace('_', '-')] unrolled
AutoRecognizeAttributes(n, expected_type, i, attrs) ==
    IF i > Len(attrs) THEN Result({expected_type}, REC_OK, n)
    ELSE AutoRecognizeStep(n, expected_type, i, attrs[i],
                           PresentName(n, attrs[i].name))

AutoRecognizeFrom(n, expected_type, i) ==
    AutoRecognizeAttributes(n, expected_type, i,
                            class_subobjects(expected_type.name))

StringMatchingMsg(expected_type) ==
    Msg("Expected a string matching", {expected_type}, "")

\* an enum branch that takes a scalar of any kind
RecognizeEnumAnyScalar(n, expected_type) ==
    IF n.kind # "scalar"
    THEN Result({}, RecError(StringMatchingMsg(expected_type), <<>>), n)
    ELSE Result({expected_type}, REC_OK, [n EXCEPT !.tag = TagStr])

\* the enum branch of __recognize_user_class
RecognizeEnum(n, expected_type) ==
    IF n.kind # "scalar" \/ n.tag \notin {TagStr, TagBool}
    THEN Result({}, RecError(StringMatchingMsg(expected_type), <<>>), n)
    ELSE \* don't read this as a bool but as a string
         Result({expected_type}, REC_OK, [n EXCEPT !.tag = TagStr])

\* the hook branch: raised is the message of the RecognitionError the hook
\* raised, "" if it returned
HookOutcome(n, expected_type, raised) ==
    IF raised = "" THEN Result({expected_type}, REC_OK, n)
    ELSE Result({}, RecError(Msg(raised, {}, ""), <<>>), n)

RecognizeAs(n, expected_type, cls) ==
    IF cls.recognize.op # "none"
    THEN HookOutcome(n, expected_type, RunRecognizeHook(cls.recognize, n))
    ELSE IF cls.enum THEN RecognizeEnum(n, expected_type)
    ELSE IF cls.stringlike
    THEN (IF n.kind # "scalar" \/ n.tag # TagStr
          THEN Result({}, RecError(StringMatchingMsg(expected_type), <<>>), n)
          ELSE Result({expected_type}, REC_OK, n))
    ELSE IF n.kind # "mapping"
    THEN Result({}, RecError(Msg("Expected a dict/mapping here with keys",
                                 {expected_type}, ""), <<>>), n)
    ELSE AutoRecognizeFrom(n, expected_type, 1)

RecognizeUserClass(n, expected_type) ==
    RecognizeAs(n, expected_type, Classes(expected_type.name))

\* one subclass of the loop: r is what the recursive call returned
RecognizeSubclass(expected_type, i, recognized_subclasses, causes, r) ==
    IF r.exc # ""
    THEN [types |-> {}, causes |-> causes, node |-> r.node, exc |-> r.exc]
    ELSE RecognizeSubclassesFrom(
             r.node, expected_type, i + 1, recognized_subclasses \cup r.types,
             IF Cardinality(r.types) = 0 THEN Append(causes, r.err)
             ELSE causes)

\* the loop of __recognize_user_classes over the registered classes, from
\* registry entry i on
RecognizeSubclassesFrom(n, expected_type, i, recognized_subclasses, causes) ==
    IF i > Len(registry)
    THEN [types |-> recognized_subclasses, causes |-> causes, node |-> n,
          exc |-> ""]
    ELSE IF ~InBases(expected_type.name, registry[i].class)
    THEN RecognizeSubclassesFrom(n, expected_type, i + 1,
                                 recognized_subclasses, causes)
    ELSE RecognizeSubclass(
             expected_type, i, recognized_subclasses, causes,
             RecognizeUserClasses(n, Class(registry[i].class), FALSE))

TagMismatchMsg(expected_type, tagged_class) ==
    Msg("there's a tag here claiming this is a(n)",
        {expected_type, Class(tagged_class)}, "")
TagUnknownMsg(expected_type, tag) ==
    Msg("there's a tag here claiming this is a(n), which type I don't know",
        {expected_type}, tag)

\* lines 354-388: what __recognize_user_classes makes of a non-empty set
ResolveByTag(n, expected_type, recognized_subclasses, causes) ==
    IF Cardinality(recognized_subclasses) > 1
    THEN (IF n.tag \in RegisteredTags
             /\ Class(RegisteredClass(n.tag)) \in recognized_subclasses
          THEN Result({Class(RegisteredClass(n.tag))}, REC_OK, n)
          ELSE Result(recognized_subclasses,
                      RecError(Msg("Could not determine which of the following types this is",
                                   recognized_subclasses, ""), causes), n))
    ELSE IF ~StartsWithYamlOrg(n.tag)
    THEN (IF n.tag \in RegisteredTags
          THEN (IF Class(RegisteredClass(n.tag)) \notin recognized_subclasses
                THEN Result({}, RecError(TagMismatchMsg(
                                expected_type, RegisteredClass(n.tag)), <<>>), n)
                ELSE Result(recognized_subclasses, REC_OK, n))
          ELSE Result({}, RecError(TagUnknownMsg(expected_type, n.tag), <<>>),
                      n))
    ELSE Result(recognized_subclasses, REC_OK, n)

\* lines 340-388, once the set of recognized subclasses is final
UserClassesOutcome(n, expected_type, top, recognized_subclasses, causes) ==
    IF Cardinality(recognized_subclasses) = 0
    THEN Result({}, RecError(Msg("Failed to recognize", {expected_type},
                                 IF top THEN "top" ELSE ""), causes), n)
    ELSE ResolveByTag(n, expected_type, recognized_subclasses, causes)

\* "if len(recognized_subclasses) == 0 and not is_abstract": own is what
\* __recognize_user_class returned for the class itself
OwnClassTried(expected_type, top, sub, own) ==
    IF own.exc # "" THEN Raised(own.exc, own.node)
    ELSE UserClassesOutcome(
             own.node, expected_type, top, own.types,
             IF Cardinality(own.types) = 0 THEN Append(sub.causes, own.err)
             ELSE sub.causes)

\* sub is the outcome of the loop over the subclasses
SubclassesTried(expected_type, top, sub) ==
    IF sub.exc # "" THEN Raised(sub.exc, sub.node)
    ELSE IF Cardinality(sub.types) = 0 /\ ~is_abstract(expected_type.name)
    THEN OwnClassTried(expected_type, top, sub,
                       RecognizeUserClass(sub.node, expected_type))
    ELSE UserClassesOutcome(sub.node, expected_type, top, sub.types,
                            sub.causes)

RecognizeUserClasses(n, expected_type, top) ==
    SubclassesTried(expected_type, top,
                    RecognizeSubclassesFrom(n, expected_type, 1, {}, <<>>))

\* the classes recognize() knows besides the registered ones
additional_classes == {Additional("Path")}

Recognize(n, expected_type) ==
    IF expected_type.t = "scalar" /\ expected_type.name \in ScalarKinds
    THEN RecognizeScalar(n, expected_type)
    ELSE IF expected_type \in additional_classes
    THEN RecognizeAdditional(n, expected_type)
    ELSE IF is_generic_union(expected_type)
    THEN RecognizeUnion(n, expected_type)
    ELSE IF is_generic_sequence(expected_type)
    THEN RecognizeList(n, expected_type)
    ELSE IF is_generic_mapping(expected_type)
    THEN RecognizeDict(n, expected_type)
    ELSE IF expected_type.t = "class" /\ expected_type.name \in RegisteredClasses
    THEN RecognizeUserClasses(n, expected_type, TRUE)
    ELSE IF expected_type = AnyType
    THEN Result({AnyType}, REC_OK, n)
    ELSE \* recognized_types is None: 'Could not recognize for type'
         Raised("RecognitionError", n)

(***************************************************************************)
(* loader.Loader                                                           *)
(***************************************************************************)
\* Loader.__type_to_desc raises RuntimeError('Unknown type ...') unless the
\* type is str, int, float, bool, None, a Union, List or Dict of such, or a
\* registered class
RECURSIVE LoaderKnowsType(_)
LoaderKnowsType(type_) ==
    \/ type_.t = "scalar" /\ type_.name \in {"str", "int", "float", "bool", "None"}
    \/ type_.t \in {"union", "list", "dict"}
       /\ \A i \in 1..Len(type_.args) : LoaderKnowsType(type_.args[i])
    \/ type_.t = "class" /\ type_.name \in RegisteredClasses

\* Loader.__type_to_tag, "" where it raises RuntimeError('Unknown type ...')
type_to_tag(type_) ==
    IF type_.t = "scalar" /\ type_.name \in ScalarKinds
    THEN scalar_type_to_tag(type_.name)
    ELSE IF type_.t = "list" THEN TagSeq
    ELSE IF type_.t = "dict" THEN TagMap
    ELSE IF type_.t = "class" /\ type_.name \in RegisteredClasses
    THEN ClassTag(type_.name)
    ELSE ""

\* Node.remove_attribute: pops the first pair whose key is attribute
remove_attribute(n, attribute) ==
    IF has_attribute(n, attribute)
    THEN [n EXCEPT !.items =
             [j \in 1..(Len(n.items) - 1) |->
                 IF j < AttrIndex(n, attribute) THEN n.items[j]
                 ELSE n.items[j + 1]]]
    ELSE n

\* Node.set_attribute with a str value: the value of the first pair whose
\* key is attribute is replaced, or a new pair is appended
set_attribute(n, attribute, value) ==
    IF has_attribute(n, attribute)
    THEN WithValue(n, AttrIndex(n, attribute), ScalarNode(TagStr, value))
    ELSE [n EXCEPT !.items =
             Append(n.items, Pair(ScalarNode(TagStr, attribute),
                                  ScalarNode(TagStr, value)))]

\* Node.set_value with a str value: yaml_node becomes a new scalar, which
\* keeps the tag of a class and gets the str tag otherwise
set_value(n, value) ==
    ScalarNode(IF StartsWithYamlOrg(n.tag) THEN TagStr ELSE n.tag, value)

\* Node.make_mapping: yaml_node becomes a new, empty mapping
make_mapping == MappingNode(TagMap, <<>>)

\* what node.yaml_node holds when it is no yaml.Node
NotANode == [kind |-> "none", tag |-> "", value |-> "", items |-> <<>>]

\* the hooks that change the wrapped node itself; the others assign a new
\* object to the wrapper's yaml_node
ChangesInPlace(hook) == hook.op \in {"remove_attribute", "set_attribute"}

\* a hook of the model called on Node(n): the wrapper's yaml_node after it
RunHook(hook, n) ==
    IF hook.op = "remove_attribute" THEN remove_attribute(n, hook.attribute)
    ELSE IF hook.op = "set_attribute"
    THEN set_attribute(n, hook.attribute, hook.value)
    ELSE IF hook.op = "set_value" THEN set_value(n, hook.value)
    ELSE IF hook.op = "make_mapping" THEN make_mapping
    ELSE IF hook.op = "clear" THEN NotANode
    ELSE n

\* expected_type.yatiml_savorize(cnode) for the hooks of the model: the
\* node of the loader after it.  The wrapper is dropped after the call
\* (lines 452-453), so only a change of the wrapped node itself is kept.
\* a hook call that leaves the node as it is
SavorizeHookSkipped(hook, n) == n

RunSavorizeHook(hook, n) ==
    IF ChangesInPlace(hook) THEN RunHook(hook, n) ELSE n

\* a node and the hook calls made on it so far: the class whose hook ran,
\* the node the hook was given, the node its wrapper held when it returned
Hooked(n, calls) == [node |-> n, calls |-> calls, exc |-> ""]
HookCall(name, seen, produced) ==
    [class |-> name, seen |-> seen, produced |-> produced]

\* lines 450-453: the class's own hook, if it has one
SavorizeOwn(h, name) ==
    IF Classes(name).savorize.op = "none" THEN h
    ELSE Hooked(RunSavorizeHook(Classes(name).savorize, h.node),
                Append(h.calls,
                       HookCall(name, h.node,
                                RunHook(Classes(name).savorize, h.node))))

\* a __savorize that calls the class's own hook before those of its bases
RECURSIVE SavorizeOwnFirst(_, _, _), SavorizeBasesAfter(_, _, _)
SavorizeBasesAfter(h, name, i) ==
    LET bases == Classes(name).bases
    IN  IF i > Len(bases) THEN h
        ELSE IF bases[i] \in RegisteredClasses
        THEN SavorizeBasesAfter(SavorizeOwnFirst(h, bases[i], 1), name, i + 1)
        ELSE SavorizeBasesAfter(h, name, i + 1)

SavorizeOwnFirst(h, name, i) ==
    SavorizeBasesAfter(SavorizeOwn(h, name), name, i)

\* Loader.__savorize: the registered base classes first, in __bases__ order
\* from base i on, then the class's own hook
RECURSIVE SavorizeFrom(_, _, _)
SavorizeFrom(h, name, i) ==
    LET bases == Classes(name).bases
    IN  IF i > Len(bases) THEN SavorizeOwn(h, name)
        ELSE IF bases[i] \in RegisteredClasses
        THEN SavorizeFrom(SavorizeFrom(h, bases[i], 1), name, i + 1)
        ELSE SavorizeFrom(h, name, i + 1)

\* what processing a node leaves behind: the node, the exception raised
\* ("" if none) and the recognitions made, in order
Processed(n, exc, log) == [node |-> n, exc |-> exc, log |-> log]
LogEntry(expected_type, types) ==
    [expected |-> expected_type, types |-> types, hooks |-> <<>>]

\* p is what __process_node left of item i
ItemProcessed(n, item_type, i, log, p) ==
    IF p.exc # ""
    THEN Processed([n EXCEPT !.items[i] = p.node], p.exc, log \o p.log)
    ELSE ProcessItemsFrom([n EXCEPT !.items[i] = p.node], item_type, i + 1,
                          log \o p.log)

\* "for item in node.value: self.__process_node(item, ...)" from item i on
ProcessItemsFrom(n, item_type, i, log) ==
    IF i > Len(n.items) THEN Processed(n, "", log)
    ELSE ItemProcessed(n, item_type, i, log,
                       ProcessNode(n.items[i], item_type))

\* p is what __process_node left of the value of entry i
ValueProcessed(n, value_type, i, log, p) ==
    IF p.exc # "" THEN Processed(WithValue(n, i, p.node), p.exc, log \o p.log)
    ELSE ProcessValuesFrom(WithValue(n, i, p.node), value_type, i + 1,
                           log \o p.log)

\* "for key_node, value_node in node.value: process value_node"
ProcessValuesFrom(n, value_type, i, log) ==
    IF i > Len(n.items) THEN Processed(n, "", log)
    ELSE ValueProcessed(n, value_type, i, log,
                        ProcessNode(n.items[i].val, value_type))

\* has_attribute iterates node.value as (key, value) pairs: on a scalar with
\* text, or a sequence with items, the unpacking raises
HasAttributeRaises(n) ==
    n.kind # "mapping" /\ (n.value # "" \/ n.items # <<>>)

\* p is what __process_node left of the value of attribute attrs[i]
AttributeProcessed(n, attrs, i, log, p) ==
    IF p.exc # ""
    THEN Processed(WithValue(n, AttrIndex(n, attrs[i].name), p.node), p.exc,
                   log \o p.log)
    ELSE ProcessAttributesFrom(
             WithValue(n, AttrIndex(n, attrs[i].name), p.node), attrs, i + 1,
             log \o p.log)

\* the attribute loop of __process_node, over class_subobjects(expected_type)
ProcessAttributesFrom(n, attrs, i, log) ==
    IF i > Len(attrs) THEN Processed(n, "", log)
    ELSE IF HasAttributeRaises(n) THEN Processed(n, "ValueError", log)
    ELSE IF ~has_attribute(n, attrs[i].name)
    THEN ProcessAttributesFrom(n, attrs, i + 1, log)
    ELSE IF GetAttributeRaises(n, attrs[i].name)
    THEN Processed(n, "SeasoningError", log)
    ELSE AttributeProcessed(
             n, attrs, i, log,
             ProcessNode(get_attribute(n, attrs[i].name), attrs[i].type))

\* RaiseUnlessUnique letting an ambiguous set pass, so that the first of
\* its types is taken
RaiseUnlessNonEmpty(expected_type, recognized_types) ==
    IF Cardinality(recognized_types) = 0
    THEN (IF LoaderKnowsType(expected_type) THEN "RecognitionError"
          ELSE "RuntimeError")
    ELSE ""

\* lines 477-485: the exception raised on no or several recognized types,
\* "" on exactly one; the message is formatted with __type_to_desc first
RaiseUnlessUnique(expected_type, recognized_types) ==
    IF Cardinality(recognized_types) = 0
    THEN (IF LoaderKnowsType(expected_type) THEN "RecognitionError"
          ELSE "RuntimeError")
    ELSE IF Cardinality(recognized_types) > 1
    THEN (IF \A t \in recognized_types : LoaderKnowsType(t)
          THEN "RecognitionError" ELSE "RuntimeError")
    ELSE ""

\* lines 495-519: the recursion into the subnodes of the savorized node
ProcessSubnodes(n, expected_type, recognized_type, log) ==
    IF recognized_type.t = "list"
    THEN ProcessItemsFrom(n, recognized_type.args[1], 1, log)
    ELSE IF recognized_type.t = "dict"
    THEN ProcessValuesFrom(n, recognized_type.args[2], 1, log)
    ELSE IF recognized_type.t = "class"
            /\ recognized_type.name \in RegisteredClasses
    THEN ProcessAttributesFrom(
             n, IF expected_type.t = "class"
                THEN class_subobjects(expected_type.name) ELSE <<>>, 1, log)
    ELSE Processed(n, "", log)

\* h is what __savorize left of the node; the hook calls go into the log
\* entry of the node
Savorized(h, expected_type, recognized_type, log) ==
    ProcessSubnodes(h.node, expected_type, recognized_type,
                    [log EXCEPT ![Len(log)].hooks = h.calls])

\* a loader that savorizes and descends without tagging the node
ProcessAsUntagged(n, expected_type, recognized_type, log) ==
    IF type_to_tag(recognized_type) = ""
    THEN Processed(n, "RuntimeError", log)
    ELSE IF recognized_type.t = "class"
            /\ recognized_type.name \in RegisteredClasses
    THEN Savorized(SavorizeFrom(Hooked(n, <<>>), recognized_type.name, 1),
                   expected_type, recognized_type, log)
    ELSE ProcessSubnodes(n, expected_type, recognized_type, log)

\* lines 487-493: the node is tagged as the recognized type and savorized
ProcessAs(n, expected_type, recognized_type, log) ==
    IF type_to_tag(recognized_type) = ""
    THEN Processed(n, "RuntimeError", log)
    ELSE IF recognized_type.t = "class"
            /\ recognized_type.name \in RegisteredClasses
    THEN Savorized(
             SavorizeFrom(
                 Hooked([n EXCEPT !.tag = type_to_tag(recognized_type)], <<>>),
                 recognized_type.name, 1),
             expected_type, recognized_type, log)
    ELSE ProcessSubnodes([n EXCEPT !.tag = type_to_tag(recognized_type)],
                         expected_type, recognized_type, log)

\* lines 475-485: rec is what the recognizer answered; recognized_types is
\* the set of types in its answer
Recognized(expected_type, rec) ==
    IF rec.exc # "" THEN Processed(rec.node, rec.exc, <<>>)
    ELSE IF RaiseUnlessUnique(expected_type, rec.types) # ""
    THEN Processed(rec.node, RaiseUnlessUnique(expected_type, rec.types),
                   <<LogEntry(expected_type, rec.types)>>)
    ELSE ProcessAs(rec.node, expected_type, CHOOSE t \in rec.types : TRUE,
                   <<LogEntry(expected_type, rec.types)>>)

\* Loader.__process_node.  class_subobjects is taken of expected_type, as
\* the code does; of a type that is no class it yields nothing.
ProcessNode(n, expected_type) ==
    Recognized(expected_type, Recognize(n, expected_type))

(***************************************************************************)
(* Python values: scalars, lists, dicts and the objects of user classes.   *)
(* An object carries its class and its attributes, an enum member or a     *)
(* user string its class and its name or text.                             *)
(***************************************************************************)
Value(py, cls, v, items) == [py |-> py, cls |-> cls, v |-> v, items |-> items]
Entry(key, val) == [key |-> key, val |-> val]
Str(v) == Value("str", "", v, <<>>)
IntValue(v) == Value("int", "", v, <<>>)
BoolValue(v) == Value("bool", "", v, <<>>)
NoneValue == Value("None", "", "", <<>>)
ListValue(entries) == Value("list", "", "", entries)
OrderedDict(entries) == Value("dict", "", "", entries)
Object(cls, fields) == Value("object", cls, "", fields)
Member(cls, name) == Value("object", cls, name, <<>>)
NoObject == Value("", "", "", <<>>)

hasattr(data, name) == \E i \in 1..Len(data.items) : data.items[i].key = name
getattr(data, name) ==
    data.items[CHOOSE i \in 1..Len(data.items) : data.items[i].key = name].val

\* OrderedDict(attrs) of a list of pairs: a key that comes again keeps its
\* place and takes the later value
LastValue(entries, key) ==
    entries[CHOOSE i \in 1..Len(entries) :
                /\ entries[i].key = key
                /\ \A j \in (i + 1)..Len(entries) : entries[j].key # key].val

RECURSIVE FirstOccurrencesFrom(_, _)
FirstOccurrencesFrom(entries, i) ==
    IF i > Len(entries) THEN <<>>
    ELSE (IF \E j \in 1..(i - 1) : entries[j].key = entries[i].key THEN <<>>
          ELSE <<Entry(entries[i].key, LastValue(entries, entries[i].key))>>)
         \o FirstOccurrencesFrom(entries, i + 1)

AsOrderedDict(entries) == FirstOccurrencesFrom(entries, 1)

(***************************************************************************)
(* representers.Representer, EnumRepresenter and UserStringRepresenter     *)
(***************************************************************************)
Represented(n, exc, calls) == [node |-> n, exc |-> exc, calls |-> calls]
Attributes(entries, exc) == [entries |-> entries, exc |-> exc]

\* argspec.args[1:] without the name _yatiml_extra
DeclaredNames(cls) ==
    SelectSeq(Tail(Classes(cls).args), LAMBDA name : name # "_yatiml_extra")

\* the attributes with the entry for _yatiml_extra left in
PublicAttributesWithSlot(data) ==
    IF \E i \in 2..Len(Classes(data.cls).args) :
           ~hasattr(data, Classes(data.cls).args[i])
    THEN Attributes(<<>>, "AttributeError")
    ELSE Attributes(
             AsOrderedDict(
                 [i \in 1..(Len(Classes(data.cls).args) - 1) |->
                     Entry(Classes(data.cls).args[i + 1],
                           getattr(data, Classes(data.cls).args[i + 1]))]), "")

\* Representer.__call__, lines 58-70: the public attributes named by the
\* constructor's parameters, then the entries of _yatiml_extra
PublicAttributes(data) ==
    IF \E i \in 1..Len(DeclaredNames(data.cls)) :
           ~hasattr(data, DeclaredNames(data.cls)[i])
    THEN Attributes(<<>>, "AttributeError")
    ELSE IF \E i \in 1..Len(Classes(data.cls).args) :
                Classes(data.cls).args[i] = "_yatiml_extra"
    THEN (IF ~hasattr(data, "_yatiml_extra")
          THEN Attributes(<<>>, "RuntimeError")
          ELSE Attributes(
                   AsOrderedDict(
                       [i \in 1..Len(DeclaredNames(data.cls)) |->
                           Entry(DeclaredNames(data.cls)[i],
                                 getattr(data, DeclaredNames(data.cls)[i]))]
                       \o getattr(data, "_yatiml_extra").items), ""))
    ELSE Attributes(
             AsOrderedDict(
                 [i \in 1..Len(DeclaredNames(data.cls)) |->
                     Entry(DeclaredNames(data.cls)[i],
                           getattr(data, DeclaredNames(data.cls)[i]))]), "")

\* the name the classes of the model keep a private field under
PrivateName(name) ==
    CASE name = "a" -> "__a" [] name = "b" -> "__b" [] OTHER -> name

\* data._yatiml_attributes() of the classes of the model: None, or the
\* private fields under their public names
CustomAttributes(data) ==
    IF AttributesHook(data.cls) = "None" THEN Attributes(<<>>, "RuntimeError")
    ELSE Attributes(
             [i \in 1..Len(DeclaredNames(data.cls)) |->
                 Entry(DeclaredNames(data.cls)[i],
                       getattr(data, PrivateName(DeclaredNames(data.cls)[i])))],
             "")

\* lines 48-70
AttributesOf(data) ==
    IF AttributesHook(data.cls) # "" THEN CustomAttributes(data)
    ELSE PublicAttributes(data)

\* lines 100-109: the class's own hook, on the wrapper all hooks share, and
\* the test that the wrapper still holds a node
SweetenOwn(h, name) ==
    IF SweetenHook(name).op = "none" THEN h
    ELSE [node |-> RunHook(SweetenHook(name), h.node),
          calls |-> Append(h.calls,
                           HookCall(name, h.node,
                                    RunHook(SweetenHook(name), h.node))),
          exc |-> IF RunHook(SweetenHook(name), h.node) = NotANode
                  THEN "RuntimeError" ELSE ""]

\* a __sweeten that calls the class's own hook before those of its bases
RECURSIVE SweetenOwnFirst(_, _, _), SweetenBasesAfter(_, _, _)
SweetenBasesAfter(h, name, i) ==
    LET bases == Classes(name).bases
    IN  IF h.exc # "" \/ i > Len(bases) THEN h
        ELSE IF bases[i] \in RegisteredClasses
        THEN SweetenBasesAfter(SweetenOwnFirst(h, bases[i], 1), name, i + 1)
        ELSE SweetenBasesAfter(h, name, i + 1)

SweetenOwnFirst(h, name, i) ==
    SweetenBasesAfter(SweetenOwn(h, name), name, i)

\* Representer.__sweeten: the base classes the dumper has a representer
\* for first, in __bases__ order from base i on, then the class's own hook
RECURSIVE SweetenFrom(_, _, _)
SweetenFrom(h, name, i) ==
    LET bases == Classes(name).bases
    IN  IF h.exc # "" THEN h
        ELSE IF i > Len(bases) THEN SweetenOwn(h, name)
        ELSE IF bases[i] \in RegisteredClasses
        THEN SweetenFrom(SweetenFrom(h, bases[i], 1), name, i + 1)
        ELSE SweetenFrom(h, name, i + 1)

Sweetened(h) == Represented(h.node, h.exc, h.calls)

RECURSIVE RepresentData(_), RepresentEntriesFrom(_, _, _, _)

\* r is what represent_data made of the value of entry i
EntryRepresented(entries, i, pairs, r, then) ==
    IF r.exc # "" THEN Represented(NotANode, r.exc, <<>>)
    ELSE RepresentEntriesFrom(
             entries, i + 1,
             Append(pairs, Pair(ScalarNode(TagStr, entries[i].key), r.node)),
             then)

\* represent_mapping and represent_sequence over the entries from i on;
\* then says what becomes of the node: the mapping of a dict, the sequence
\* of a list, or the mapping of an object of class then, which is sweetened
RepresentEntriesFrom(entries, i, pairs, then) ==
    IF i <= Len(entries)
    THEN EntryRepresented(entries, i, pairs,
                          RepresentData(entries[i].val), then)
    ELSE IF then = "dict" THEN Represented(MappingNode(TagMap, pairs), "", <<>>)
    ELSE IF then = "list"
    THEN Represented(
             SequenceNode(TagSeq, [j \in 1..Len(pairs) |-> pairs[j].val]),
             "", <<>>)
    ELSE Sweetened(SweetenFrom(Hooked(MappingNode(TagMap, pairs), <<>>),
                               then, 1))

\* Representer.__call__
RepresentObject(data, attributes) ==
    IF attributes.exc # "" THEN Represented(NotANode, attributes.exc, <<>>)
    ELSE RepresentEntriesFrom(attributes.entries, 1, <<>>, data.cls)

\* EnumRepresenter.__call__: the member's name as a str scalar, sweetened
\* if the class has a hook; what the wrapper holds is returned as it is
RepresentEnum(data) ==
    IF SweetenHook(data.cls).op = "none"
    THEN Represented(ScalarNode(TagStr, data.v), "", <<>>)
    ELSE Represented(
             RunHook(SweetenHook(data.cls), ScalarNode(TagStr, data.v)), "",
             <<HookCall(data.cls, ScalarNode(TagStr, data.v),
                        RunHook(SweetenHook(data.cls),
                                ScalarNode(TagStr, data.v)))>>)

\* UserStringRepresenter.__call__
RepresentUserString(data) ==
    Sweetened(SweetenOwn(Hooked(ScalarNode(TagStr, data.v), <<>>), data.cls))

\* dumper.represent_data: the representer of the value's type, those of
\* add_to_dumper for the registered classes
RepresentData(data) ==
    IF data.py = "str" THEN Represented(ScalarNode(TagStr, data.v), "", <<>>)
    ELSE IF data.py = "int"
    THEN Represented(ScalarNode(TagInt, data.v), "", <<>>)
    ELSE IF data.py = "bool"
    THEN Represented(ScalarNode(TagBool, IF data.v = "True" THEN "true"
                                         ELSE "false"), "", <<>>)
    ELSE IF data.py = "float"
    THEN Represented(ScalarNode(TagFloat, data.v), "", <<>>)
    ELSE IF data.py = "None"
    THEN Represented(ScalarNode(TagNull, "null"), "", <<>>)
    ELSE IF data.py \in {"list", "CommentedSeq"}
    THEN RepresentEntriesFrom(data.items, 1, <<>>, "list")
    ELSE IF data.py \in {"dict", "CommentedMap"}
    THEN RepresentEntriesFrom(data.items, 1, <<>>, "dict")
    ELSE IF data.cls \notin RegisteredClasses
    THEN Represented(NotANode, "RepresenterError", <<>>)
    ELSE IF Classes(data.cls).enum THEN RepresentEnum(data)
    ELSE IF Classes(data.cls).stringlike THEN RepresentUserString(data)
    ELSE RepresentObject(data, AttributesOf(data))

(***************************************************************************)
(* constructors.Constructor, EnumConstructor and UserStringConstructor,    *)
(* called by yaml's construct_object for the nodes that carry their tag    *)
(***************************************************************************)
\* what a constructor call comes to: the value made, the exception raised
\* with its message and the attribute it is about, the __init__ calls that
\* were made, and the node as the constructors left it
Constructed(value, exc, message, attribute, inits, n) ==
    [value |-> value, exc |-> exc, message |-> message,
     attribute |-> attribute, inits |-> inits, node |-> n]
InitCall(cls, kwargs) == [cls |-> cls, kwargs |-> kwargs]
Failure(exc, message, attribute) ==
    [exc |-> exc, message |-> message, attribute |-> attribute]
NoFailure == Failure("", "", "")

\* yaml's constructors of the scalar tags; a number is held by its decimal
\* text, a bool by what Python calls it
construct_yaml_int(value) == IF value = "0x2A" THEN "42" ELSE value
construct_yaml_bool(value) ==
    IF value \in {"true", "True", "yes", "on"} THEN "True" ELSE "False"
construct_scalar(n) ==
    CASE n.tag = TagStr -> Str(n.value)
      [] n.tag = TagInt -> IntValue(construct_yaml_int(n.value))
      [] n.tag = TagBool -> BoolValue(construct_yaml_bool(n.value))
      [] n.tag = TagNull -> NoneValue
      [] n.tag = TagFloat -> Value("float", "", n.value, <<>>)
      [] n.tag = TagTimestamp -> Value("datetime", "", n.value, <<>>)
      [] OTHER -> Value("TaggedScalar", "", n.value, <<>>)

\* the names the enum classes of the model have
Members(name) == IF Classes(name).enum THEN {"red", "green"} ELSE {}

\* issubclass(cls, base) over the user classes
RECURSIVE issubclass(_, _)
issubclass(cls, base) ==
    \/ cls = base
    \/ \E j \in 1..Len(Classes(cls).bases) :
           issubclass(Classes(cls).bases[j], base)

\* isinstance(obj, type_); bool is a subclass of int, CommentedSeq one of
\* list and CommentedMap one of OrderedDict.  No class of the model
\* annotates a parameter with Any or with a class outside the model.
isinstance(obj, type_) ==
    IF type_.t = "scalar"
    THEN CASE type_.name = "str" -> obj.py = "str"
           [] type_.name = "int" -> obj.py \in {"int", "bool"}
           [] type_.name = "float" -> obj.py = "float"
           [] type_.name = "bool" -> obj.py = "bool"
           [] type_.name = "None" -> obj.py = "None"
           [] OTHER -> FALSE
    ELSE IF type_.t = "class"
    THEN obj.py = "object" /\ issubclass(obj.cls, type_.name)
    ELSE IF type_ = Additional("OrderedDict")
    THEN obj.py \in {"dict", "CommentedMap"}
    ELSE FALSE

\* Constructor.__type_matches
RECURSIVE type_matches(_, _)
type_matches(obj, type_) ==
    IF is_generic_union(type_)
    THEN \E i \in 1..Len(type_.args) : type_matches(obj, type_.args[i])
    ELSE IF is_generic_sequence(type_)
    THEN /\ obj.py \in {"list", "CommentedSeq"}
         /\ \A j \in 1..Len(obj.items) :
                type_matches(obj.items[j].val, type_.args[1])
    ELSE IF is_generic_mapping(type_)
    THEN /\ obj.py \in {"dict", "CommentedMap"}
         /\ \A j \in 1..Len(obj.items) :
                /\ isinstance(Str(obj.items[j].key), type_.args[1])
                /\ type_matches(obj.items[j].val, type_.args[2])
    ELSE IF type_ = Scalar("bool_union_fix") THEN obj.py = "bool"
    ELSE isinstance(obj, type_)

Contains(s, x) == \E i \in 1..Len(s) : s[i] = x

\* Constructor.__strip_tags: the tag of every mapping in the tree is reset,
\* scalars and sequences are left as they are
RECURSIVE strip_tags(_)
strip_tags(n) ==
    IF n.kind = "sequence"
    THEN [n EXCEPT !.items = [j \in 1..Len(n.items) |-> strip_tags(n.items[j])]]
    ELSE IF n.kind = "mapping"
    THEN [n EXCEPT !.tag = TagMap,
                   !.items = [j \in 1..Len(n.items) |->
                                 Pair(strip_tags(n.items[j].key),
                                      strip_tags(n.items[j].val))]]
    ELSE n

\* argspec.args without self and yatiml_extra
known_keys(name) ==
    SelectSeq(Classes(name).args,
              LAMBDA a : a # "self" /\ a # "yatiml_extra")

\* Constructor.__strip_extra_attributes: the values under the keys that are
\* no parameter of __init__ are stripped of tags; a key that is no string
\* raises
strip_extra_attributes(n, name) ==
    IF \E i \in 1..Len(n.items) :
           n.items[i].key.kind # "scalar" \/ n.items[i].key.tag # TagStr
    THEN [node |-> n, exc |-> "RecognitionError"]
    ELSE [node |-> [n EXCEPT !.items =
                       [i \in 1..Len(n.items) |->
                           IF Contains(known_keys(name), n.items[i].key.value)
                           THEN n.items[i]
                           ELSE Pair(n.items[i].key,
                                     strip_tags(n.items[i].val))]],
          exc |-> ""]

\* Constructor.__to_plain_containers
RECURSIVE to_plain_containers(_)
to_plain_containers(container) ==
    IF container.py = "CommentedMap"
    THEN Value("dict", "", "",
               [j \in 1..Len(container.items) |->
                   Entry(container.items[j].key,
                         to_plain_containers(container.items[j].val))])
    ELSE IF container.py = "CommentedSeq"
    THEN Value("list", "", "",
               [j \in 1..Len(container.items) |->
                   Entry(container.items[j].key,
                         to_plain_containers(container.items[j].val))])
    ELSE container

\* Constructor.__check_no_missing_attributes, from attribute i on
RECURSIVE check_no_missing_attributes(_, _, _)
check_no_missing_attributes(name, mapping, i) ==
    LET attrs == class_subobjects(name)
    IN  IF i > Len(attrs) THEN NoFailure
        ELSE IF attrs[i].required /\ ~hasattr(mapping, attrs[i].name)
        THEN Failure("RecognitionError", "Missing attribute", attrs[i].name)
        ELSE IF /\ hasattr(mapping, attrs[i].name)
                /\ ~type_matches(getattr(mapping, attrs[i].name), attrs[i].type)
        THEN Failure("RecognitionError", "Attribute has incorrect type",
                     attrs[i].name)
        ELSE check_no_missing_attributes(name, mapping, i + 1)

\* a check that lets the keys pass that are no parameter of __init__
RECURSIVE TypeCheckDeclaredOnly(_, _, _)
TypeCheckDeclaredOnly(name, mapping, i) ==
    LET argspec == Classes(name)
        key == mapping.items[i].key
    IN  IF i > Len(mapping.items) THEN NoFailure
        ELSE IF /\ Contains(argspec.args, key)
                /\ key \in DOMAIN argspec.annotations
                /\ ~type_matches(mapping.items[i].val, argspec.annotations[key])
        THEN Failure("RecognitionError", "Expected attribute to be of type",
                     key)
        ELSE TypeCheckDeclaredOnly(name, mapping, i + 1)

\* Constructor.__type_check_attributes, from entry i of the mapping on
RECURSIVE type_check_attributes(_, _, _)
type_check_attributes(name, mapping, i) ==
    LET argspec == Classes(name)
        key == mapping.items[i].key
    IN  IF i > Len(mapping.items) THEN NoFailure
        ELSE IF /\ ~Contains(argspec.args, key)
                /\ ~Contains(argspec.args, "yatiml_extra")
        THEN Failure("RecognitionError", "Found additional attributes", key)
        ELSE IF /\ Contains(argspec.args, key)
                /\ key \notin DOMAIN argspec.annotations
        THEN Failure("KeyError", "", key)
        ELSE IF /\ Contains(argspec.args, key)
                /\ ~type_matches(mapping.items[i].val, argspec.annotations[key])
        THEN Failure("RecognitionError", "Expected attribute to be of type",
                     key)
        ELSE type_check_attributes(name, mapping, i + 1)

\* Constructor.__split_off_extra_attributes: the entries under the known
\* names, then yatiml_extra with the other entries
split_off_extra_attributes(mapping, known_attrs) ==
    Append(SelectSeq(mapping.items,
                     LAMBDA e : Contains(known_attrs, e.key)
                                /\ e.key # "yatiml_extra"),
           Entry("yatiml_extra",
                 OrderedDict(
                     SelectSeq(mapping.items,
                               LAMBDA e : ~Contains(known_attrs, e.key)
                                          \/ e.key = "yatiml_extra"))))

\* the attribute the __init__ of the class keeps a parameter in: its own
\* name, or a private name in a class that has _yatiml_attributes
StoredAs(cls, arg) ==
    IF AttributesHook(cls) # "" THEN PrivateName(arg) ELSE arg

\* new_obj.__init__(**attrs) raises TypeError for a keyword that is no
\* parameter and for a parameter without default that is not given
InitRaises(cls, attrs) ==
    LET argspec == Classes(cls)
    IN  \/ \E j \in 1..Len(attrs) : ~Contains(Tail(argspec.args), attrs[j].key)
        \/ \E i \in 2..(Len(argspec.args) - argspec.ndefaults) :
               \A j \in 1..Len(attrs) : attrs[j].key # argspec.args[i]

\* the object __init__ makes: every parameter is kept as an attribute, the
\* default of a parameter that has one is None
Initialized(cls, attrs) ==
    Object(cls,
           [i \in 1..(Len(Classes(cls).args) - 1) |->
               Entry(StoredAs(cls, Classes(cls).args[i + 1]),
                     IF \E j \in 1..Len(attrs) :
                            attrs[j].key = Classes(cls).args[i + 1]
                     THEN attrs[CHOOSE j \in 1..Len(attrs) :
                                    attrs[j].key = Classes(cls).args[i + 1]].val
                     ELSE NoneValue)])

\* Constructor.__call__, lines 92-106: r is what construct_mapping made of
\* the stripped node, attrs the keywords __init__ is called with
ConstructorInit(name, r, attrs) ==
    IF InitRaises(name, attrs)
    THEN Constructed(NoObject, "RecognitionError", "Could not construct object",
                     "", Append(r.inits, InitCall(name, attrs)), r.node)
    ELSE Constructed(Initialized(name, attrs), "", "", "",
                     Append(r.inits, InitCall(name, attrs)), r.node)

\* lines 87-100: mapping is the constructed mapping with plain containers
ConstructorChecked(name, r, mapping, missing, extraneous) ==
    IF missing.exc # ""
    THEN Constructed(NoObject, missing.exc, missing.message,
                     missing.attribute, r.inits, r.node)
    ELSE IF extraneous.exc # ""
    THEN Constructed(NoObject, extraneous.exc, extraneous.message,
                     extraneous.attribute, r.inits, r.node)
    ELSE ConstructorInit(
             name, r,
             IF Contains(Classes(name).args, "yatiml_extra")
             THEN split_off_extra_attributes(mapping, Classes(name).args)
             ELSE mapping.items)

\* lines 76-89
ConstructorMapped(name, r, mapping) ==
    ConstructorChecked(name, r, mapping,
                       check_no_missing_attributes(name, mapping, 1),
                       type_check_attributes(name, mapping, 1))

ConstructorConstructed(name, r) ==
    IF r.exc # "" THEN r
    ELSE ConstructorMapped(
             name, r,
             [r.value EXCEPT !.items =
                 [j \in 1..Len(r.value.items) |->
                     Entry(r.value.items[j].key,
                           to_plain_containers(r.value.items[j].val))]])

RECURSIVE construct_object(_), ConstructEntriesFrom(_, _, _, _)

\* r is what construct_object made of item i of a sequence node or of the
\* value of pair i of a mapping node
EntryConstructed(n, i, entries, inits, r) ==
    IF r.exc # ""
    THEN Constructed(NoObject, r.exc, r.message, r.attribute,
                     inits \o r.inits, n)
    ELSE IF n.kind = "mapping"
    THEN ConstructEntriesFrom(
             WithValue(n, i, r.node), i + 1,
             Append(entries, Entry(n.items[i].key.value, r.value)),
             inits \o r.inits)
    ELSE ConstructEntriesFrom(
             [n EXCEPT !.items[i] = r.node], i + 1,
             Append(entries, Entry("", r.value)), inits \o r.inits)

\* construct_mapping and construct_sequence with deep=True, from entry i on
ConstructEntriesFrom(n, i, entries, inits) ==
    IF i <= Len(n.items)
    THEN EntryConstructed(
             n, i, entries, inits,
             construct_object(IF n.kind = "mapping" THEN n.items[i].val
                              ELSE n.items[i]))
    ELSE Constructed(
             Value(IF n.kind = "mapping" THEN "CommentedMap"
                   ELSE "CommentedSeq", "", "", entries),
             "", "", "", inits, n)

\* Constructor.__call__, lines 68-77
ConstructorStripped(name, s) ==
    IF s.exc # ""
    THEN Constructed(NoObject, s.exc, "Mapping keys that are not of type string",
                     "", <<>>, s.node)
    ELSE ConstructorConstructed(name,
                                ConstructEntriesFrom(s.node, 1, <<>>, <<>>))

\* Constructor.__call__
Constructor(name, n) ==
    IF n.kind # "mapping"
    THEN Constructed(NoObject, "RecognitionError", "Expected a MappingNode",
                     "", <<>>, n)
    ELSE ConstructorStripped(name, strip_extra_attributes(n, name))

\* EnumConstructor.__call__
EnumConstructor(name, n) ==
    IF n.kind # "scalar" \/ n.value \notin Members(name)
    THEN Constructed(NoObject, "RecognitionError",
                     "Expected a string matching", "", <<>>, n)
    ELSE Constructed(Member(name, n.value), "", "", "", <<>>, n)

\* UserStringConstructor.__call__
UserStringConstructor(name, n) ==
    IF n.kind # "scalar"
    THEN Constructed(NoObject, "RecognitionError",
                     "Expected a string matching", "", <<>>, n)
    ELSE Constructed(Member(name, n.value), "", "", "",
                     <<InitCall(name, <<Entry("seq", Str(n.value))>>)>>, n)

\* the constructor a class is registered with: EnumConstructor for an enum,
\* UserStringConstructor for a user-defined string, else Constructor
ClassConstructor(name, n) ==
    IF Classes(name).enum THEN EnumConstructor(name, n)
    ELSE IF Classes(name).stringlike THEN UserStringConstructor(name, n)
    ELSE Constructor(name, n)

\* yaml's construct_object: the constructor registered for the tag of the
\* node, else the round-trip constructor of the kind of node, which makes
\* a tagged scalar or a plain container of a node with a tag it does not
\* know
construct_object(n) ==
    IF n.tag \in RegisteredTags
    THEN ClassConstructor(RegisteredClass(n.tag), n)
    ELSE IF n.kind = "scalar"
    THEN Constructed(construct_scalar(n), "", "", "", <<>>, n)
    ELSE ConstructEntriesFrom(n, 1, <<>>, <<>>)

(***************************************************************************)
(* irecognizer.format_rec_error                                            *)
(*                                                                         *)
(* The string returned is a heading followed by the messages shown, which  *)
(* are separated by an empty line; it is kept as the heading and the       *)
(* sequence of messages.                                                   *)
(***************************************************************************)
SingleErrorForm == "An error occurred:"
MultipleAlternativesForm == "Multiple things are allowed here, but none of them were recognised correctly. At least one of these errors should apply to what you want to do; please solve that one and ignore the others."

Rendering(heading, messages) == [heading |-> heading, messages |-> messages]

\* find_leaves, lines 23-29: the messages of the errors without causes,
\* in the order of a walk of the tree
RECURSIVE find_leaves(_), FindLeavesFrom(_, _)
find_leaves(rec_error) ==
    IF rec_error.causes = <<>> THEN <<rec_error.msg>>
    ELSE FindLeavesFrom(rec_error.causes, 1)

FindLeavesFrom(causes, i) ==
    IF i > Len(causes) THEN <<>>
    ELSE find_leaves(causes[i]) \o FindLeavesFrom(causes, i + 1)

\* UniqueLeavesFrom that keeps every leaf
EveryLeafFrom(leaves, i, unique_leaves) == leaves

\* lines 33-36: a leaf is kept the first time it is met
RECURSIVE UniqueLeavesFrom(_, _, _)
UniqueLeavesFrom(leaves, i, unique_leaves) ==
    IF i > Len(leaves) THEN unique_leaves
    ELSE UniqueLeavesFrom(leaves, i + 1,
                          IF Contains(unique_leaves, leaves[i])
                          THEN unique_leaves
                          ELSE Append(unique_leaves, leaves[i]))

\* lines 38-45
Formatted(unique_leaves) ==
    IF Len(unique_leaves) = 1
    THEN Rendering(SingleErrorForm, <<unique_leaves[1]>>)
    ELSE Rendering(MultipleAlternativesForm, unique_leaves)

format_rec_error(rec_error) ==
    Formatted(UniqueLeavesFrom(find_leaves(rec_error), 1, <<>>))

(***************************************************************************)
(* helpers.Node: the functions that rewrite a node                         *)
(*                                                                         *)
(* A function that may raise is given as [node, exc]: the node as the call *)
(* left it and the exception raised ("" if it returned).                   *)
(***************************************************************************)
Left(n, exc) == [node |-> n, exc |-> exc]

\* str.replace('-', '_') and str.replace('_', '-') over the keys of the model
ReplaceDashesWithUnders(name) ==
    CASE name = "a-b" -> "a_b" [] name = "attr-2" -> "attr_2" [] OTHER -> name
UndersReplacedByDashes(name) ==
    CASE name = "a_b" -> "a-b" [] name = "attr_2" -> "attr-2" [] OTHER -> name

\* str(value) of a scalar value, and the text set_value and set_attribute
\* write for it
ValueStr(value) ==
    IF value.py = "bool" THEN (IF value.v = "True" THEN "true" ELSE "false")
    ELSE IF value.py = "None" THEN "None"
    ELSE value.v

\* Node.set_value, lines 110-126: the scalar that takes the place of the
\* node; a class tag is kept
SetValueTo(n, value) ==
    ScalarNode(IF StartsWithYamlOrg(n.tag) THEN scalar_type_to_tag(value.py)
               ELSE n.tag,
               ValueStr(value))

\* Node.set_attribute, lines 248-268: the node made of a scalar value
ValueNode(value) ==
    IF value.py = "None" THEN ScalarNode(TagNull, "")
    ELSE ScalarNode(scalar_type_to_tag(value.py), ValueStr(value))

\* Node.set_attribute, lines 270-279, with the value node
SetAttributeTo(n, attribute, value_node) ==
    IF has_attribute(n, attribute)
    THEN WithValue(n, AttrIndex(n, attribute), value_node)
    ELSE [n EXCEPT !.items =
             Append(n.items, Pair(ScalarNode(TagStr, attribute), value_node))]

\* Node.rename_attribute: the first key that is attribute is renamed
rename_attribute(n, attribute, new_name) ==
    IF has_attribute(n, attribute)
    THEN [n EXCEPT !.items[AttrIndex(n, attribute)].key.value = new_name]
    ELSE n

unders_to_dashes_in_keys(n) ==
    [n EXCEPT !.items =
        [i \in 1..Len(n.items) |->
            [n.items[i] EXCEPT !.key.value = UndersReplacedByDashes(@)]]]

dashes_to_unders_in_keys(n) ==
    [n EXCEPT !.items =
        [i \in 1..Len(n.items) |->
            [n.items[i] EXCEPT !.key.value = ReplaceDashesWithUnders(@)]]]

\* value_attribute=None
NotGiven == ""

\* seq_attribute_to_map, lines 489-500: the first loop, from item i on;
\* "" if the keys are unique strings, "return" if a key was seen before and
\* strict is False, else the exception raised
RECURSIVE CheckKeysFrom(_, _, _, _, _)
CheckKeysFrom(items, key_attribute, strict, i, seen_keys) ==
    IF i > Len(items) THEN ""
    ELSE IF GetAttributeRaises(items[i], key_attribute) THEN "SeasoningError"
    ELSE IF ~is_scalar(get_attribute(items[i], key_attribute), "str")
    THEN "SeasoningError"
    ELSE IF get_value(get_attribute(items[i], key_attribute)) \in seen_keys
    THEN (IF strict THEN "SeasoningError" ELSE "return")
    ELSE CheckKeysFrom(items, key_attribute, strict, i + 1,
                       seen_keys \cup {get_value(get_attribute(
                                           items[i], key_attribute))})

\* lines 507-516: the pair made of an item; item is the item with the key
\* attribute removed
MappingValue(key_node, item, value_attribute) ==
    IF value_attribute # NotGiven /\ Len(item.items) = 1
    THEN Pair(key_node, get_attribute(item, value_attribute))
    ELSE Pair(key_node, item)

\* lines 503-516: the second loop, from item i on.  The items are changed
\* in place, so when get_attribute(value_attribute) raises, the sequence is
\* left with the key attribute removed from the items up to that one.
RECURSIVE ConstructMappingFrom(_, _, _, _, _, _)
ConstructMappingFrom(n, seq, key_attribute, value_attribute, i, mapping_values) ==
    IF i > Len(seq.items)
    THEN Left(SetAttributeTo(n.node, n.attribute,
                             MappingNode(TagMap, mapping_values)), "")
    ELSE IF /\ value_attribute # NotGiven
            /\ GetAttributeRaises(remove_attribute(seq.items[i], key_attribute),
                                  value_attribute)
    THEN Left(SetAttributeTo(
                  n.node, n.attribute,
                  [seq EXCEPT !.items[i] =
                      remove_attribute(seq.items[i], key_attribute)]),
              "SeasoningError")
    ELSE ConstructMappingFrom(
             n,
             [seq EXCEPT !.items[i] =
                 remove_attribute(seq.items[i], key_attribute)],
             key_attribute, value_attribute, i + 1,
             Append(mapping_values,
                    MappingValue(get_attribute(seq.items[i], key_attribute),
                                 remove_attribute(seq.items[i], key_attribute),
                                 value_attribute)))

\* lines 489-521, after the first loop returned checked
SeqChecked(n, attribute, key_attribute, value_attribute, checked) ==
    IF checked = "return" THEN Left(n, "")
    ELSE IF checked # "" THEN Left(n, checked)
    ELSE ConstructMappingFrom([node |-> n, attribute |-> attribute],
                              get_attribute(n, attribute), key_attribute,
                              value_attribute, 1, <<>>)

\* Node.seq_attribute_to_map on a mapping node whose sequences hold mappings
seq_attribute_to_map(n, attribute, key_attribute, value_attribute, strict) ==
    IF ~has_attribute(n, attribute) THEN Left(n, "")
    ELSE IF GetAttributeRaises(n, attribute) THEN Left(n, "SeasoningError")
    ELSE IF get_attribute(n, attribute).kind # "sequence" THEN Left(n, "")
    ELSE SeqChecked(n, attribute, key_attribute, value_attribute,
                    CheckKeysFrom(get_attribute(n, attribute).items,
                                  key_attribute, strict, 1, {}))

\* map_attribute_to_seq, lines 612-620: the record made of the value of an
\* entry
ItemValueNode(item_key, item_value, key_attribute, value_attribute) ==
    SetAttributeTo(
        IF item_value.kind # "mapping"
        THEN SetAttributeTo(make_mapping, value_attribute, item_value)
        ELSE item_value,
        key_attribute, ScalarNode(TagStr, item_key.value))

\* lines 608-621: the loop, from entry i on.  The value of an entry that is
\* a mapping is changed in place, so it is changed in attr_node as well.
RECURSIVE ObjectListFrom(_, _, _, _, _, _)
ObjectListFrom(n, attr_node, key_attribute, value_attribute, i, object_list) ==
    IF i > Len(attr_node.items)
    THEN SetAttributeTo(n.node, n.attribute,
                        SequenceNode(TagSeq, object_list))
    ELSE IF /\ attr_node.items[i].val.kind # "mapping"
            /\ value_attribute = NotGiven
    THEN SetAttributeTo(n.node, n.attribute, attr_node)
    ELSE ObjectListFrom(
             n,
             IF attr_node.items[i].val.kind = "mapping"
             THEN WithValue(attr_node, i,
                            ItemValueNode(attr_node.items[i].key,
                                          attr_node.items[i].val,
                                          key_attribute, value_attribute))
             ELSE attr_node,
             key_attribute, value_attribute, i + 1,
             Append(object_list,
                    ItemValueNode(attr_node.items[i].key,
                                  attr_node.items[i].val,
                                  key_attribute, value_attribute)))

\* Node.map_attribute_to_seq
map_attribute_to_seq(n, attribute, key_attribute, value_attribute) ==
    IF ~has_attribute(n, attribute) THEN Left(n, "")
    ELSE IF GetAttributeRaises(n, attribute) THEN Left(n, "SeasoningError")
    ELSE IF get_attribute(n, attribute).kind # "mapping" THEN Left(n, "")
    ELSE Left(ObjectListFrom([node |-> n, attribute |-> attribute],
                             get_attribute(n, attribute), key_attribute,
                             value_attribute, 1, <<>>), "")

(***************************************************************************)
(* dumper.Dumper: the JSON emitter.  An Optional[int] is <<>> for None and *)
(* <<n>> for n; the stream is the sequence of the strings written to it.   *)
(***************************************************************************)
\* yaml.events, as the serializer sends them
Event(type, tag, value) == [type |-> type, tag |-> tag, value |-> value]
AliasEvent == Event("AliasEvent", "", "")
SequenceStartEvent == Event("SequenceStartEvent", "", "")
SequenceEndEvent == Event("SequenceEndEvent", "", "")
MappingStartEvent == Event("MappingStartEvent", "", "")
MappingEndEvent == Event("MappingEndEvent", "", "")
DocumentEndEvent == Event("DocumentEndEvent", "", "")
ScalarEvent(tag, value) == Event("ScalarEvent", tag, value)

\* yaml.emitter.Emitter.__init__: best_indent is 2 unless 1 < indent < 10
BestIndent(indent) ==
    IF indent # <<>> /\ 1 < indent[1] /\ indent[1] < 10 THEN indent[1] ELSE 2

\* Dumper.__init__, with the fields emit_json works on
NewDumper(indent) ==
    [_json_state |-> <<"NONE">>, _cur_indent |-> 0,
     _requested_indent |-> indent,
     _kv_sep |-> IF indent # <<>> THEN ": " ELSE ":",
     best_indent |-> BestIndent(indent), stream |-> <<>>]

\* self.stream.write(text)
Write(d, text) == [d EXCEPT !.stream = Append(@, text)]

\* ' ' * n
RECURSIVE Spaces(_)
Spaces(n) == IF n <= 0 THEN "" ELSE " " \o Spaces(n - 1)

\* Dumper._do_endline
DoEndline(d) ==
    IF d._requested_indent # <<>>
    THEN Write(Write(d, "\n"), Spaces(d._cur_indent))
    ELSE d

\* json.dumps(value) of a string without characters to escape
JsonDumps(value) == "\"" \o value \o "\""

\* str.lower, over the texts of the booleans
Lower(value) ==
    CASE value \in {"True", "TRUE", "true"} -> "true"
      [] value \in {"False", "FALSE", "false"} -> "false"
      [] OTHER -> value

\* what a dumper is after emit_json, and the exception raised ("" if none)
Emitted(d, exc) == [dumper |-> d, exc |-> exc]

\* lines 92-101: the end of a sequence or mapping
EndContainer(d, bracket) ==
    IF d._json_state = <<>>
    THEN Emitted(Write(DoEndline([d EXCEPT !._cur_indent = @ - d.best_indent]),
                       bracket), "IndexError")
    ELSE Emitted(
             [Write(DoEndline([d EXCEPT !._cur_indent = @ - d.best_indent]),
                    bracket)
                 EXCEPT !._json_state = SubSeq(@, 1, Len(@) - 1)], "")

\* lines 109-117: write separator if necessary
WriteSeparator(d, cur_state) ==
    IF cur_state \in {"SEQUENCE", "MAPPING_KEY"} THEN DoEndline(Write(d, ","))
    ELSE IF cur_state = "MAPPING_VALUE" THEN Write(d, d._kv_sep)
    ELSE d

\* lines 130-142: the text of a scalar
ScalarText(event) ==
    IF event.tag = TagStr THEN JsonDumps(event.value)
    ELSE IF event.tag = TagNull THEN "null"
    ELSE IF event.tag = TagBool THEN Lower(event.value)
    ELSE IF event.tag = TagTimestamp THEN JsonDumps(event.value)
    ELSE event.value

\* lines 120-129: the start of a sequence or mapping
StartContainer(d, bracket, state) ==
    [DoEndline([Write(d, bracket) EXCEPT !._cur_indent = @ + d.best_indent])
        EXCEPT !._json_state = Append(@, state)]

\* lines 119-142: output value
OutputValue(d, event) ==
    IF event.type = "SequenceStartEvent"
    THEN StartContainer(d, "[", "SEQUENCE_FIRST")
    ELSE IF event.type = "MappingStartEvent"
    THEN StartContainer(d, "{", "MAPPING_KEY_FIRST")
    ELSE IF event.type = "ScalarEvent" THEN Write(d, ScalarText(event))
    ELSE d

\* a next state written to the top of the stack, whatever was pushed
SetTopState(d, cur_level, cur_state) ==
    IF cur_state = "SEQUENCE_FIRST"
    THEN [d EXCEPT !._json_state[Len(d._json_state)] = "SEQUENCE"]
    ELSE IF cur_state \in {"MAPPING_KEY_FIRST", "MAPPING_KEY"}
    THEN [d EXCEPT !._json_state[Len(d._json_state)] = "MAPPING_VALUE"]
    ELSE IF cur_state = "MAPPING_VALUE"
    THEN [d EXCEPT !._json_state[Len(d._json_state)] = "MAPPING_KEY"]
    ELSE d

\* lines 144-152: set next state, at the level the event came in at
SetNextState(d, cur_level, cur_state) ==
    IF cur_state = "SEQUENCE_FIRST"
    THEN [d EXCEPT !._json_state[cur_level] = "SEQUENCE"]
    ELSE IF cur_state \in {"MAPPING_KEY_FIRST", "MAPPING_KEY"}
    THEN [d EXCEPT !._json_state[cur_level] = "MAPPING_VALUE"]
    ELSE IF cur_state = "MAPPING_VALUE"
    THEN [d EXCEPT !._json_state[cur_level] = "MAPPING_KEY"]
    ELSE d

\* lines 104-152: a top-level scalar, or continuing a sequence or mapping;
\* cur_level counts from 1 here
ContinueWith(d, event, cur_level) ==
    IF cur_level = 0 THEN Emitted(d, "IndexError")
    ELSE Emitted(
             SetNextState(
                 OutputValue(WriteSeparator(d, d._json_state[cur_level]),
                             event),
                 cur_level, d._json_state[cur_level]), "")

\* Dumper.emit_json
emit_json(d, event) ==
    IF event.type = "AliasEvent" THEN Emitted(d, "RuntimeError")
    ELSE IF event.type = "SequenceEndEvent" THEN EndContainer(d, "]")
    ELSE IF event.type = "MappingEndEvent" THEN EndContainer(d, "}")
    ELSE IF event.type = "DocumentEndEvent" THEN Emitted(DoEndline(d), "")
    ELSE ContinueWith(d, event, Len(d._json_state))

(***************************************************************************)
(* Bounds and inputs                                                       *)
(***************************************************************************)
MaxItems == 2       \* items of a sequence node
MaxEntries == 2     \* entries of a mapping node
MaxCalls == 2       \* consecutive recognize calls on one node
MaxHistory == 5     \* calls on one document: load, dump and load again

SeqsUpTo(S, n) == UNION {[1..k -> S] : k \in 0..n}

StrNode(value) == ScalarNode(TagStr, value)
IntNode(value) == ScalarNode(TagInt, value)
BoolNode(value) == ScalarNode(TagBool, value)

ScalarNodes ==
    {StrNode("A"), StrNode("x"), IntNode("42"), ScalarNode(TagFloat, "1.5"), BoolNode("true"),
     ScalarNode(TagNull, "")}

SequenceNodes(items) ==
    {SequenceNode(TagSeq, its) : its \in SeqsUpTo(items, MaxItems)}

\* mappings with pairwise distinct keys, as a YAML document has them
MappingNodes(tags, keys, values) ==
    {MappingNode(tag, pairs) :
        tag \in tags,
        pairs \in {ps \in SeqsUpTo({Pair(StrNode(k), v) : k \in keys, v \in values},
                                   MaxEntries) :
                      \A i, j \in 1..Len(ps) :
                          ps[i].key.value = ps[j].key.value => i = j}}

\* the values of the documents with keys the classes do not declare:
\* scalars, and tagged nodes at the top and inside a sequence and a mapping
ExtraValues ==
    {IntNode("10"), IntNode("0x2A"), StrNode("x"), ScalarNode("!Color", "red"),
     ScalarNode("!MyStr", "x"),
     MappingNode("!Lenient", <<Pair(StrNode("a"), IntNode("10"))>>),
     SequenceNode(TagSeq, <<ScalarNode("!Color", "red")>>),
     MappingNode(TagMap,
                 <<Pair(StrNode("b"),
                        MappingNode("!Lenient",
                                    <<Pair(StrNode("a"), IntNode("10"))>>))>>)}

Scenarios ==
    {"builtin", "super", "chain", "enum", "hooks", "partial", "diamond",
     "dump", "extra"}

Registry(s) ==
    CASE s = "builtin" -> add_to_loader(<<>>)
      [] s = "super" ->
           add_to_loader(<<"Super", "SubA", "SubB", "Super3", "SubA3", "SubB3",
                           "Super3Clone">>)
      [] s = "chain" ->
           add_to_loader(<<"Abstract", "Concrete", "Base", "Mid", "Leaf">>)
      [] s = "enum" ->
           add_to_loader(<<"Color", "MyStr", "Postcode", "Document", "Setting",
                           "Mode", "Flag", "Text", "Note">>)
      [] s = "hooks" ->
           add_to_loader(<<"Figure", "Circle", "Plate", "Dish", "Label",
                           "Badge">>)
      [] s = "partial" -> add_to_loader(<<"Figure", "Ring">>)
      [] s = "diamond" ->
           add_to_loader(<<"Figure", "Circle", "Band", "Blob", "Oval">>)
      [] s = "dump" ->
           add_to_loader(<<"Smudge", "Tint", "Scrawl", "Color", "MyStr">>)
      [] s = "extra" ->
           add_to_loader(<<"Extensible", "Expandable", "Lenient", "Private",
                           "BrokenPrivate", "Color", "MyStr">>)

Permutations3(a, b, c) ==
    {<<a, b, c>>, <<a, c, b>>, <<b, a, c>>, <<b, c, a>>, <<c, a, b>>,
     <<c, b, a>>}

Types(s) ==
    CASE s = "builtin" ->
           {Scalar(k) : k \in ScalarKinds}
           \cup {Additional("Path"), AnyType, Class("Unregistered")}
           \cup {UnionOf(args) :
                    args \in Permutations3(Scalar("int"), Scalar("bool_union_fix"),
                                           Scalar("bool"))}
           \cup {UnionOf(<<Scalar("str"), Scalar("None")>>),
                 UnionOf(<<Scalar("int"), Scalar("str")>>),
                 ListOf(Scalar("str")), ListOf(Scalar("int")),
                 ListOf(UnionOf(<<Scalar("int"), Scalar("bool")>>)),
                 DictOf(Scalar("str"), Scalar("int")),
                 DictOf(Scalar("int"), Scalar("str")),
                 DictOf(AnyType, Scalar("str")),
                 DictOf(UnionOf(<<Scalar("str"), Scalar("int")>>), Scalar("str")),
                 UnionOf(<<Scalar("int"), DictOf(Scalar("int"), Scalar("str"))>>),
                 ListOf(DictOf(Scalar("int"), Scalar("str")))}
      [] s = "super" ->
           {Class(c) : c \in {"Super", "SubA", "SubB", "Super3", "SubA3",
                              "Super3Clone"}}
           \cup {UnionOf(<<Class("Super3"), Class("Super3Clone")>>),
                 UnionOf(<<Class("Super"), Scalar("int")>>)}
      [] s = "chain" ->
           {Class(c) : c \in {"Abstract", "Concrete", "Base", "Mid", "Leaf"}}
      [] s = "enum" ->
           {Class(c) : c \in {"Color", "MyStr", "Postcode", "Document",
                              "Setting", "Flag", "Text", "Note"}}
           \cup {UnionOf(<<Scalar("bool"), Class("Color")>>),
                 UnionOf(<<Class("Color"), Scalar("bool")>>),
                 UnionOf(<<Class("Color"), Class("Document")>>),
                 UnionOf(<<Scalar("str"), Class("MyStr")>>),
                 ListOf(UnionOf(<<Scalar("str"), Class("MyStr")>>)),
                 ListOf(UnionOf(<<Scalar("bool"), Class("Color")>>)),
                 ListOf(Class("Color")),
                 DictOf(Class("MyStr"), Scalar("int")),
                 DictOf(Class("Color"), Scalar("int"))}
      [] s = "hooks" ->
           {Class(c) : c \in {"Figure", "Circle", "Plate", "Dish", "Label",
                              "Badge"}}
      [] s = "partial" -> {Class("Figure"), Class("Ring")}
      [] s = "diamond" -> {Class("Blob"), Class("Oval"), Class("Band")}
      [] s = "dump" -> {Class("Tint"), Class("Scrawl"), Class("Color")}
      [] s = "extra" ->
           {Class(c) : c \in {"Extensible", "Expandable", "Lenient", "Private"}}

Nodes(s) ==
    CASE s = "builtin" ->
           ScalarNodes
           \cup SequenceNodes({StrNode("A"), IntNode("42"), BoolNode("true")})
           \cup MappingNodes({TagMap}, {"a", "b"}, {StrNode("A"), IntNode("42")})
           \cup {MappingNode(TagMap, <<Pair(IntNode("1"), StrNode("A"))>>)}
      [] s = "super" ->
           {StrNode("A"), IntNode("42"), SequenceNode(TagSeq, <<>>)}
           \cup MappingNodes({TagMap, "!Super", "!SubA", "!Super3", "!SubA3",
                          "!Super3Clone", "!Ellipse"},
                         {"subclass", "attr"},
                         {StrNode("A"), StrNode("B"), StrNode("x"), IntNode("42")})
      [] s = "chain" ->
           {StrNode("A"), SequenceNode(TagSeq, <<>>)}
           \cup MappingNodes({TagMap, "!Abstract", "!Concrete", "!Base", "!Mid",
                          "!Leaf"},
                         {"attr", "attr_2", "attr-2"},
                         {StrNode("A"), StrNode("x"), IntNode("42")})
      [] s = "enum" ->
           ScalarNodes
           \cup {ScalarNode("!Color", "red"), ScalarNode("!MyStr", "A")}
           \cup SequenceNodes({StrNode("A"), IntNode("42"), BoolNode("true")})
           \cup MappingNodes({TagMap, "!Mode", "!Flag", "!Text", "!Document"},
                         {"attr", "color"},
                         {StrNode("A"), BoolNode("true"), IntNode("42"),
                          SequenceNode(TagSeq, <<IntNode("42")>>)})
      [] s = "hooks" ->
           {StrNode("A"), ScalarNode(TagNull, "")}
           \cup MappingNodes({TagMap, "!Figure"}, {"name", "kind", "round"},
                             {StrNode("A"), StrNode("x")})
      [] s = "partial" ->
           MappingNodes({TagMap}, {"name", "kind"}, {StrNode("A"), StrNode("x")})
      [] s = "diamond" ->
           MappingNodes({TagMap}, {"name", "kind"}, {StrNode("A")})
      [] s = "dump" -> {StrNode("red"), BoolNode("true")}
      [] s = "extra" ->
           MappingNodes({TagMap}, {"a", "b", "c"}, ExtraValues)
           \cup {MappingNode(TagMap, <<Pair(StrNode("a"), IntNode("10")),
                                       Pair(StrNode(k[1]), v),
                                       Pair(StrNode(k[2]), StrNode("x"))>>) :
                    k \in {<<"b", "c">>, <<"c", "b">>}, v \in ExtraValues}

\* the objects handed to the dumper
Objects(s) ==
    CASE s = "hooks" ->
           {Object(c, <<Entry("name", Str(v))>>) :
               c \in {"Figure", "Circle", "Plate", "Dish"}, v \in {"A", "x"}}
           \cup {Object("Label", <<>>), Object("Badge", <<>>)}
      [] s = "partial" ->
           {Object(c, <<Entry("name", Str(v))>>) :
               c \in {"Figure", "Ring"}, v \in {"A", "x"}}
      [] s = "diamond" ->
           {Object(c, <<Entry("name", Str("A"))>>) : c \in {"Blob", "Oval"}}
      [] s = "dump" ->
           {Object("Smudge", <<Entry("name", Str("A"))>>),
            Member("Tint", "red"), Member("Scrawl", "A"),
            Member("Color", "red"), Member("MyStr", "A")}
      [] s = "extra" ->
           {Object(c, <<Entry("a", IntValue("10")),
                        Entry(StoredAs(c, "_yatiml_extra"), OrderedDict(extra))>>) :
               c \in {"Expandable"},
               extra \in {es \in SeqsUpTo({Entry(k, v) :
                                              k \in {"a", "b", "c"},
                                              v \in {Str("x"), IntValue("5")}},
                                          MaxEntries) :
                             \A i, j \in 1..Len(es) :
                                 es[i].key = es[j].key => i = j}}
           \cup {Object("Expandable", <<Entry("a", IntValue("10"))>>)}
           \cup {Object(c, <<Entry("__a", IntValue("10")), Entry("__b", Str(v))>>) :
                   c \in {"Private", "BrokenPrivate"}, v \in {"A", "x"}}
      [] OTHER -> {}

(***************************************************************************)
(* The state machine: a loader class is set up with a registry and a       *)
(* document type, a node is composed, and the recognizer or the loader is  *)
(* called on it.                                                           *)
(***************************************************************************)
Init ==
    /\ \E s \in Scenarios :
          /\ registry = Registry(s)
          /\ \/ /\ expected \in Types(s)
                /\ node \in Nodes(s)
                /\ object = NoObject
                /\ phase = "ready"
             \/ /\ object \in Objects(s)
                /\ expected = Class(object.cls)
                /\ node = NotANode
                /\ phase = "made"
    /\ history = <<>>
    /\ dumper = NewDumper(<<>>)

Call(op, before, types, err, exc, after, log) ==
    [op |-> op, before |-> before, types |-> types, err |-> err, exc |-> exc,
     after |-> after, log |-> log]

\* a call of the dumper, with the object it was given
DumpCall(data, before, exc, after, log) ==
    [op |-> "represent", before |-> before, types |-> {}, err |-> REC_OK,
     exc |-> exc, after |-> after, log |-> log, data |-> data]

\* recognizer.recognize(node, expected)
Recognizing(r) ==
    /\ registry' = registry
    /\ node' = r.node
    /\ history' = Append(history,
           Call("recognize", node, r.types, r.err, r.exc, r.node, <<>>))

RecognizeNode ==
    /\ phase = "ready"
    /\ Len(history) < MaxCalls
    /\ Recognizing(Recognize(node, expected))
    /\ UNCHANGED <<expected, phase, object, dumper>>

\* Loader.get_single_node: the composed node is processed as the document
\* type, for a document type the loader has a description and a tag for
\* Loading that drops the first class of the registry
LoadingForgets(p) ==
    /\ registry' = SubSeq(registry, 2, Len(registry))
    /\ node' = p.node
    /\ phase' = IF p.exc = "" THEN "loaded" ELSE "failed"
    /\ history' = Append(history,
           Call("load", node, {}, REC_OK, p.exc, p.node, p.log))

\* the loader's class keeps _registered_classes, which the recognizer and
\* __process_node only read
Loading(p) ==
    /\ registry' = registry
    /\ node' = p.node
    /\ phase' = IF p.exc = "" THEN "loaded" ELSE "failed"
    /\ history' = Append(history,
           Call("load", node, {}, REC_OK, p.exc, p.node, p.log))

Load ==
    /\ \/ phase = "ready" /\ history = <<>>
       \/ phase = "represented" /\ node # NotANode /\ Len(history) < MaxHistory
    /\ LoaderKnowsType(expected)
    /\ Loading(ProcessNode(node, expected))
    /\ UNCHANGED <<expected, object, dumper>>

\* yaml.dump(object, Dumper=dumper): dumper.represent_data(object) makes the
\* node that is emitted
Representing(r) ==
    /\ registry' = registry
    /\ node' = r.node
    /\ phase' = IF r.exc = "" THEN "represented" ELSE "failed"
    /\ history' = Append(history,
           DumpCall(object, node, r.exc, r.node, r.calls))

Represent ==
    /\ phase \in {"made", "constructed"}
    /\ Len(history) < MaxHistory
    /\ Representing(RepresentData(object))
    /\ UNCHANGED <<expected, object, dumper>>

\* yaml's construct_document: the object is constructed from the node
\* get_single_node returned; the node is changed in place
Constructing(c) ==
    /\ registry' = registry
    /\ node' = c.node
    /\ object' = c.value
    /\ phase' = IF c.exc = "" THEN "constructed" ELSE "failed"
    /\ history' = Append(history,
           Call("construct", node, {}, REC_OK, c.exc, c.node,
                <<[message |-> c.message, attribute |-> c.attribute,
                   value |-> c.value, inits |-> c.inits]>>))

Construct ==
    /\ phase = "loaded"
    /\ Constructing(construct_object(node))
    /\ UNCHANGED <<expected, dumper>>

\* format_rec_error(result), as the callers of recognize() do when no type
\* was recognized (helpers.py, line 1013)
FormatError ==
    /\ phase = "ready"
    /\ history # <<>>
    /\ Len(history) <= MaxCalls
    /\ history[Len(history)].op = "recognize"
    /\ history[Len(history)].exc = ""
    /\ history[Len(history)].types = {}
    /\ history' = Append(history,
           Call("format", node, {}, history[Len(history)].err, "", node,
                <<format_rec_error(history[Len(history)].err)>>))
    /\ UNCHANGED <<registry, node, expected, phase, object, dumper>>

Next == RecognizeNode \/ FormatError \/ Load \/ Construct \/ Represent

Spec == Init /\ [][Next]_vars

(***************************************************************************)
(* Properties                                                              *)
(***************************************************************************)
\* the calls of the history made through op
Calls(op) == {i \in 1..Len(history) : history[i].op = op}

\* C1: recognize(node, T) never mutates the node: after every call of
\* recognize, whatever its outcome, the node tree (kinds, tags, values,
\* children, order) is the tree it was before the call.
RecognizeLeavesNodeAsItWas ==
    \A i \in Calls("recognize") : history[i].after = history[i].before

\* C2: two consecutive calls recognize(node, T), with nothing done to the
\* node in between, return the identical set of recognized types.
RecognizeTwiceSameTypes ==
    \A i \in Calls("recognize") :
        (i + 1) \in Calls("recognize") /\ history[i].exc = ""
            => /\ history[i + 1].exc = ""
               /\ history[i + 1].types = history[i].types

\* C3: recognize(node, Scalar(kind)) returns {kind} if and only if the node
\* is a scalar whose tag is the tag of that kind, and the empty set
\* otherwise; an int is never recognized as a float nor a float as an int.
ScalarExactness ==
    \A i \in Calls("recognize") :
        LET c == history[i]
        IN  c.exc = "" /\ expected.t = "scalar" =>
                /\ c.types \in {{}, {expected}}
                /\ c.types = {expected} <=>
                       (c.before.kind = "scalar"
                        /\ \/ expected.name = "str" /\ c.before.tag = TagStr
                           \/ expected.name = "int" /\ c.before.tag = TagInt
                           \/ expected.name = "float" /\ c.before.tag = TagFloat
                           \/ expected.name \in {"bool", "bool_union_fix"}
                              /\ c.before.tag = TagBool
                           \/ expected.name = "None" /\ c.before.tag = TagNull)

\* an int-tagged scalar was offered to float and refused
ScalarExactnessWitness ==
    \E i \in Calls("recognize") :
        /\ expected = Scalar("float")
        /\ history[i].before = IntNode("42")
        /\ history[i].types = {}
        /\ history[i].exc = ""

\* the unions of int, bool and bool_union_fix, in any order
IsBoolFixUnion(type_) ==
    /\ is_generic_union(type_)
    /\ {type_.args[j] : j \in 1..Len(type_.args)}
           = {Scalar("int"), Scalar("bool"), Scalar("bool_union_fix")}

\* C4: for a union of int, bool and bool_union_fix a bool-tagged scalar is
\* recognized as exactly {bool} and an int-tagged scalar as exactly {int},
\* without an ambiguity being reported.
UnionCollapse ==
    \A i \in Calls("recognize") :
        LET c == history[i]
        IN  IsBoolFixUnion(expected) /\ c.before.kind = "scalar" =>
                /\ c.exc = ""
                /\ c.before.tag = TagBool =>
                       c.types = {Scalar("bool")} /\ c.err = REC_OK
                /\ c.before.tag = TagInt =>
                       c.types = {Scalar("int")} /\ c.err = REC_OK

\* true was recognized against a union that lists bool_union_fix before bool
UnionCollapseWitness ==
    \E i \in Calls("recognize") :
        /\ expected = UnionOf(<<Scalar("int"), Scalar("bool_union_fix"),
                                Scalar("bool")>>)
        /\ history[i].before = BoolNode("true")
        /\ history[i].types = {Scalar("bool")}

\* other_class is a registered class below name in the class hierarchy
RECURSIVE IsDescendant(_, _)
IsDescendant(other_class, name) ==
    \E j \in 1..Len(Classes(other_class).bases) :
        \/ Classes(other_class).bases[j] = name
        \/ IsDescendant(Classes(other_class).bases[j], name)

StrictDescendants(name) ==
    {d \in RegisteredClasses : IsDescendant(d, name)}

Hierarchy(name) == {name} \cup StrictDescendants(name)

\* the class itself matches the node, by its hook or by auto-recognition
Matches(n, name) == RecognizeUserClass(n, Class(name)).types # {}

MatchingConcrete(n, names) ==
    {d \in names : ~is_abstract(d) /\ Matches(n, d)}

MostDerivedMatching(n, name) ==
    {Class(d) : d \in {d \in MatchingConcrete(n, Hierarchy(name)) :
                          MatchingConcrete(n, StrictDescendants(d)) = {}}}

ExpectsRegisteredClass ==
    expected.t = "class" /\ expected.name \in RegisteredClasses

\* C5: for an untagged node and an expected class C, recognize returns
\* exactly the non-abstract classes among C and its registered descendants
\* that match the node themselves and have no non-abstract registered strict
\* descendant matching the node.
MostDerivedRecognized ==
    \A i \in Calls("recognize") :
        LET c == history[i]
        IN  ExpectsRegisteredClass /\ StartsWithYamlOrg(c.before.tag)
            /\ c.exc = ""
                => c.types = MostDerivedMatching(c.before, expected.name)

\* C6: if the node's tag names a registered non-abstract class T that is the
\* expected class C or a registered descendant of it, and T itself matches
\* the node, recognize returns exactly {T}.
ExplicitTagWins ==
    \A i \in Calls("recognize") :
        LET c == history[i]
        IN  ExpectsRegisteredClass /\ c.before.tag \in RegisteredTags
            /\ c.exc = ""
            /\ RegisteredClass(c.before.tag) \in Hierarchy(expected.name)
            /\ ~is_abstract(RegisteredClass(c.before.tag))
            /\ Matches(c.before, RegisteredClass(c.before.tag))
                => c.types = {Class(RegisteredClass(c.before.tag))}

\* the failure, or one of its causes at any depth, is a message about the tag
RECURSIVE HasTagMessage(_)
HasTagMessage(err) ==
    \/ err.msg.text \in
           {"there's a tag here claiming this is a(n)",
            "there's a tag here claiming this is a(n), which type I don't know"}
    \/ \E j \in 1..Len(err.causes) : HasTagMessage(err.causes[j])

\* the node's tag is explicit and disagrees with the expected class: it is
\* not registered, or names a class outside the hierarchy, or names a class
\* that does not match the node
TagDisagrees(n) ==
    /\ ExpectsRegisteredClass
    /\ ~StartsWithYamlOrg(n.tag)
    /\ \/ n.tag \notin RegisteredTags
       \/ RegisteredClass(n.tag) \notin Hierarchy(expected.name)
       \/ ~Matches(n, RegisteredClass(n.tag))

\* C7: when the node's explicit tag disagrees with the expected class,
\* recognize returns the empty set, with a message about the tag whenever a
\* class of the hierarchy matches the node, and load raises RecognitionError.
TagDisagreementIsAnError ==
    /\ \A i \in Calls("recognize") :
           LET c == history[i]
           IN  TagDisagrees(c.before) /\ c.exc = ""
                   => /\ c.types = {}
                      /\ MatchingConcrete(c.before, Hierarchy(expected.name))
                             # {} => HasTagMessage(c.err)
    /\ \A i \in Calls("load") :
           TagDisagrees(history[i].before)
               => history[i].exc = "RecognitionError"

ItemOutcome(items, j) == Recognize(items[j], generic_type_args(expected)[1])

FailingItems(items) ==
    {j \in 1..Len(items) :
        ItemOutcome(items, j).exc = "" /\ ItemOutcome(items, j).types = {}}

\* C9: recognize(node, Sequence(T)) returns the empty set whenever the node
\* is not a sequence or some item fails recognition against T, wherever the
\* item is and whatever the outcome for the other items, with that item's
\* failure as the cause; it returns {Sequence(T)} when every item is
\* recognized as exactly one type.
SequenceFailsWithAnyItem ==
    \A i \in Calls("recognize") :
        LET c == history[i]
        IN  is_generic_sequence(expected) /\ c.exc = "" =>
                /\ c.before.kind # "sequence" => c.types = {}
                /\ c.before.kind = "sequence"
                   /\ FailingItems(c.before.items) # {}
                       => /\ c.types = {}
                          /\ \E j \in FailingItems(c.before.items) :
                                 c.err.causes
                                     = <<ItemOutcome(c.before.items, j).err>>
                /\ c.before.kind = "sequence"
                   /\ (\A j \in 1..Len(c.before.items) :
                          Cardinality(ItemOutcome(c.before.items, j).types) = 1)
                       => c.types = {expected}

\* a mapping type whose key type is no string-like class
HasNonStringKey(type_) ==
    /\ is_generic_mapping(type_)
    /\ type_.args[1] # Scalar("str")
    /\ ~(type_.args[1].t = "class" /\ type_.args[1].name = "MyStr")

\* C10: recognize(node, Mapping(Tk, Tv)) with Tk not a string-like class
\* raises RuntimeError for every node, mapping or not, and so does the
\* recognition against a union that has such a mapping type as alternative.
NonStringKeyRaisesRuntimeError ==
    \A i \in Calls("recognize") :
        LET c == history[i]
        IN  (\/ HasNonStringKey(expected)
             \/ /\ is_generic_union(expected)
                /\ \E j \in 1..Len(expected.args) :
                       HasNonStringKey(expected.args[j]))
                => c.exc = "RuntimeError" /\ c.types = {}

\* an int was offered to a union of int and a mapping with int keys: the
\* int alternative matches, and the call raised all the same
NonStringKeyRaisesRuntimeErrorWitness ==
    \E i \in Calls("recognize") :
        /\ expected = UnionOf(<<Scalar("int"),
                                DictOf(Scalar("int"), Scalar("str"))>>)
        /\ history[i].before = IntNode("42")
        /\ history[i].exc = "RuntimeError"
(***************************************************************************)
(* Auto-recognition by constructor signature                               *)
(***************************************************************************)
\* a class __recognize_user_class recognizes from its constructor signature
AutoRecognized(type_) ==
    /\ type_.t = "class"
    /\ Classes(type_.name).recognize.op = "none"
    /\ ~Classes(type_.name).enum
    /\ ~Classes(type_.name).stringlike

\* the spelling of the attribute the mapping has, the name itself first
SpellingsPresent(n, attr) ==
    {s \in {attr.name, ReplaceUndersWithDashes(attr.name)} :
        \E j \in 1..Len(n.items) : n.items[j].key.value = s}

ValueUnder(n, s) ==
    n.items[CHOOSE j \in 1..Len(n.items) : n.items[j].key.value = s].val

AttributeAcceptable(n, attr) ==
    IF SpellingsPresent(n, attr) = {} THEN ~attr.required
    ELSE LET s == IF attr.name \in SpellingsPresent(n, attr) THEN attr.name
                  ELSE ReplaceUndersWithDashes(attr.name)
         IN  Recognize(ValueUnder(n, s), attr.type).types # {}

SignatureAccepts(n, type_) ==
    /\ n.kind = "mapping"
    /\ \A k \in 1..Len(class_subobjects(type_.name)) :
           AttributeAcceptable(n, class_subobjects(type_.name)[k])

\* C11: auto-recognition of one class (no recognize hook, not an enum, not
\* string-like) accepts a node if and only if the node is a mapping and,
\* for every constructor attribute, the value under the attribute's name or
\* its dashed spelling is recognized against the attribute's type when one
\* of them is present, and the attribute is optional when neither is.
AutoRecognitionBySignature ==
    \A i \in Calls("recognize") :
        LET c == history[i]
        IN  AutoRecognized(expected) =>
                /\ RecognizeUserClass(c.before, expected).types
                       \in {{}, {expected}}
                /\ RecognizeUserClass(c.before, expected).types = {expected}
                       <=> SignatureAccepts(c.before, expected)
                /\ (expected.name \in RegisteredClasses
                    /\ StrictDescendants(expected.name) = {}
                    /\ ~is_abstract(expected.name)
                    /\ StartsWithYamlOrg(c.before.tag))
                       => (c.types = {expected}
                              <=> SignatureAccepts(c.before, expected))

\* Base was recognized from a mapping that spells its optional attr_2 with
\* a dash
AutoRecognitionBySignatureWitness ==
    /\ expected = Class("Base")
    /\ Len(history) = 1
    /\ history[1].op = "recognize"
    /\ history[1].before.kind = "mapping"
    /\ \E j \in 1..Len(history[1].before.items) :
           history[1].before.items[j].key.value = "attr-2"
    /\ history[1].types = {Class("Base")}

(***************************************************************************)
(* Enum and string-like classes                                            *)
(***************************************************************************)
\* a registered enum or string-like class recognized by the library itself
ExpectsEnum ==
    /\ ExpectsRegisteredClass
    /\ Classes(expected.name).recognize.op = "none"
    /\ Classes(expected.name).enum

ExpectsStringLike ==
    /\ ExpectsRegisteredClass
    /\ Classes(expected.name).recognize.op = "none"
    /\ ~Classes(expected.name).enum
    /\ Classes(expected.name).stringlike

\* C12 as stated: recognize(node, Class(E)) for an enum or string-like class
\* E returns {E} only if the node is a scalar with the string tag, and the
\* empty set for any other scalar, a sequence or a mapping.
EnumAndStringLikeFromStringOnly ==
    \A i \in Calls("recognize") :
        LET c == history[i]
        IN  ExpectsEnum \/ ExpectsStringLike =>
                /\ c.types \in {{}, {expected}}
                /\ c.types = {expected} =>
                       c.before.kind = "scalar" /\ c.before.tag = TagStr

\* C12 as amended: an enum class is recognized exactly from a scalar with
\* the string tag or the bool tag, a string-like class exactly from a scalar
\* with the string tag; any other node yields the empty set.
EnumFromStringOrBoolScalar ==
    \A i \in Calls("recognize") :
        LET c == history[i]
        IN  /\ ExpectsEnum =>
                /\ c.types \in {{}, {expected}}
                /\ c.types = {expected} <=>
                       (c.before.kind = "scalar"
                        /\ c.before.tag \in {TagStr, TagBool})
            /\ ExpectsStringLike =>
                /\ c.types \in {{}, {expected}}
                /\ c.types = {expected} <=>
                       (c.before.kind = "scalar" /\ c.before.tag = TagStr)

\* the enum Color was recognized from a bool-tagged scalar
EnumFromStringOrBoolScalarWitness ==
    /\ expected = Class("Color")
    /\ Len(history) = 1
    /\ history[1].op = "recognize"
    /\ history[1].before = BoolNode("true")
    /\ history[1].types = {Class("Color")}

(***************************************************************************)
(* Desugar and sweeten hooks                                               *)
(***************************************************************************)
\* base is reached from name through registered base classes only
RECURSIVE RegisteredAncestor(_, _)
RegisteredAncestor(base, name) ==
    \E j \in 1..Len(Classes(name).bases) :
        /\ Classes(name).bases[j] \in RegisteredClasses
        /\ \/ Classes(name).bases[j] = base
           \/ RegisteredAncestor(base, Classes(name).bases[j])

HasSavorize(name) == Classes(name).savorize.op # "none"
HasSweeten(name) == SweetenHook(name).op # "none"

\* the hooks of the registered ancestors of a class come before its own
BaseFirst(calls, Hooks) ==
    \A k \in 1..Len(calls) :
        \A base \in Hooks :
            RegisteredAncestor(base, calls[k].class)
                => \E j \in 1..(k - 1) : calls[j].class = base

\* the hook of the class itself comes last
OwnLast(calls, name, Hooks) ==
    /\ \A k \in 1..Len(calls) :
           calls[k].class \in Hooks
           /\ (calls[k].class = name \/ RegisteredAncestor(calls[k].class, name))
    /\ name \in Hooks => calls # <<>> /\ calls[Len(calls)].class = name

\* each hook is given the node the hook before it left
HandedOn(calls) ==
    \A k \in 2..Len(calls) : calls[k].seen = calls[k - 1].produced

\* the registered class a log entry of a load was savorized as
SavorizedClasses(e) ==
    IF Cardinality(e.types) # 1 THEN {}
    ELSE {t.name : t \in {t \in e.types : t.t = "class"
                                          /\ t.name \in RegisteredClasses}}

\* C13: when a node recognized as class C is desugared, and when an object
\* of class C is sweetened, the hook of every registered ancestor of C runs
\* before the hook of any class derived from it, the hook of C itself runs
\* last, and each hook is given the node as the hook before it left it.
HooksRunBaseFirst ==
    /\ \A i \in Calls("load") :
           \A j \in 1..Len(history[i].log) :
               \A name \in SavorizedClasses(history[i].log[j]) :
                   LET calls == history[i].log[j].hooks
                       Hooks == {c \in RegisteredClasses : HasSavorize(c)}
                   IN  /\ BaseFirst(calls, Hooks)
                       /\ OwnLast(calls, name, Hooks)
                       /\ HandedOn(calls)
    /\ \A i \in Calls("represent") :
           history[i].exc = "" /\ object.cls \in RegisteredClasses =>
               LET calls == history[i].log
                   Hooks == {c \in RegisteredClasses : HasSweeten(c)}
               IN  /\ BaseFirst(calls, Hooks)
                   /\ OwnLast(calls, object.cls, Hooks)
                   /\ HandedOn(calls)

(***************************************************************************)
(* Hooks that leave no node of the right shape                             *)
(***************************************************************************)
\* the node is tagged as a class that Constructor constructs from a mapping
MappingConstructed(n) ==
    /\ n.tag \in RegisteredTags
    /\ ~Classes(RegisteredClass(n.tag)).enum
    /\ ~Classes(RegisteredClass(n.tag)).stringlike

\* a sweeten hook of the call left something that is no node
HookLeftNoNode(call) ==
    \E j \in 1..Len(call.log) : call.log[j].produced = NotANode

\* the node the loader hands to construction is tagged as a class built
\* from a mapping but is no mapping: construction raises, makes no object
\* and calls no __init__
NonMappingNotConstructed ==
    \A i \in 1..Len(history) :
        /\ history[i].op = "construct"
        /\ MappingConstructed(history[i].before)
        /\ history[i].before.kind # "mapping"
        => /\ history[i].exc # ""
           /\ history[i].log[1].value = NoObject
           /\ history[i].log[1].inits = <<>>

\* a sweeten hook left no node: representation raises and returns nothing
NoNodeNotRepresented ==
    \A i \in 1..Len(history) :
        history[i].op = "represent" /\ HookLeftNoNode(history[i])
        => history[i].exc # "" /\ history[i].after = NotANode

\* C14: a node that is no mapping after the desugar hooks of a class built
\* from a mapping makes construction raise without an object, a wrapper
\* that holds no node after a sweeten hook makes representation raise
\* without a node, and what representation returns without raising is a
\* node
CorruptingHookFailsLoudly ==
    /\ NonMappingNotConstructed
    /\ NoNodeNotRepresented
    /\ \A i \in 1..Len(history) :
           history[i].op = "represent" /\ history[i].exc = ""
           => history[i].after # NotANode

(***************************************************************************)
(* Undeclared keys and the overflow slot                                   *)
(***************************************************************************)
\* the names a parameter that takes the undeclared entries goes by
SlotNames == {"yatiml_extra", "_yatiml_extra"}

SlotOf(cls) ==
    CHOOSE s \in SlotNames : Contains(Classes(cls).args, s)

HasOverflowSlot(cls) ==
    \E s \in SlotNames : Contains(Classes(cls).args, s)

\* the parameters of __init__ that are attributes
DeclaredAttributes(cls) ==
    SelectSeq(Classes(cls).args, LAMBDA a : a # "self" /\ a \notin SlotNames)

Keys(entries) == [j \in 1..Len(entries) |-> entries[j].key]

\* the keys of the mapping node that are no declared attribute, in order
UndeclaredKeys(n, cls) ==
    SelectSeq([j \in 1..Len(n.items) |-> n.items[j].key.value],
              LAMBDA k : ~Contains(DeclaredAttributes(cls), k))

\* call i loads a plain mapping as a class with an overflow slot
LoadsWithSlot(i) ==
    /\ history[i].op = "load"
    /\ expected.t = "class"
    /\ HasOverflowSlot(expected.name)
    /\ Contains(DeclaredAttributes(expected.name), "a")
    /\ history[i].before.kind = "mapping"
    /\ history[i].before.tag = TagMap

\* call i constructs the object call i - 1 loaded
ConstructsLoaded(i) ==
    /\ i > 1
    /\ i <= Len(history)
    /\ history[i].op = "construct"
    /\ history[i - 1].op = "load"

\* the constructed object has a under a and exactly the undeclared entries
\* in the slot, in the order of the document, and __init__ was called with
\* the declared attributes and the slot only
SlotHoldsUndeclared(i, doc) ==
    LET made == history[i].log[1]
        cls == expected.name
    IN  /\ history[i].exc = ""
        /\ made.value.py = "object"
        /\ made.value.cls = cls
        /\ hasattr(made.value, "a")
        /\ getattr(made.value, "a") = construct_scalar(get_attribute(doc, "a"))
        /\ hasattr(made.value, SlotOf(cls))
        /\ Keys(getattr(made.value, SlotOf(cls)).items) = UndeclaredKeys(doc, cls)
        /\ made.inits # <<>>
        /\ \A j \in 1..Len(made.inits[Len(made.inits)].kwargs) :
               LET k == made.inits[Len(made.inits)].kwargs[j].key
               IN  k = SlotOf(cls) \/ Contains(DeclaredAttributes(cls), k)

\* C15: a mapping that has the required attribute a is loaded and
\* constructed as a class with an overflow slot, a is passed as attribute
\* and the slot takes exactly the undeclared entries in their order (none
\* if there are none); without a, loading or construction fails, and a
\* failure of construction names the missing attribute a
OverflowSlotTakesUndeclared ==
    \A i \in 1..Len(history) :
        LoadsWithSlot(i)
        => IF /\ has_attribute(history[i].before, "a")
              /\ get_attribute(history[i].before, "a").tag = TagInt
           THEN /\ history[i].exc = ""
                /\ ConstructsLoaded(i + 1)
                   => SlotHoldsUndeclared(i + 1, history[i].before)
           ELSE IF ~has_attribute(history[i].before, "a")
           THEN \/ history[i].exc # ""
                \/ ConstructsLoaded(i + 1)
                   => /\ history[i + 1].exc # ""
                      /\ history[i + 1].log[1].message = "Missing attribute"
                      /\ history[i + 1].log[1].attribute = "a"
           ELSE TRUE

\* call i constructs a mapping tagged as a class that declares no overflow
\* slot, and the mapping has a key that is no parameter of the class
ConstructsUndeclared(i) ==
    /\ history[i].op = "construct"
    /\ MappingConstructed(history[i].before)
    /\ history[i].before.kind = "mapping"
    /\ ~HasOverflowSlot(RegisteredClass(history[i].before.tag))
    /\ \E j \in 1..Len(history[i].before.items) :
           ~Contains(Classes(RegisteredClass(history[i].before.tag)).args,
                     history[i].before.items[j].key.value)

\* C16: constructing a class without overflow slot from a mapping the
\* loader accepted, with a key that is no parameter of its __init__,
\* raises RecognitionError, and the __init__ of the class is not called
UndeclaredKeyRejected ==
    \A i \in 1..Len(history) :
        ConstructsUndeclared(i)
        => /\ history[i].exc = "RecognitionError"
           /\ history[i].log[1].value = NoObject
           /\ \A j \in 1..Len(history[i].log[1].inits) :
                  history[i].log[1].inits[j].cls
                      # RegisteredClass(history[i].before.tag)

\* a recognized and loaded mapping with an undeclared key was rejected by
\* the check for additional attributes
UndeclaredKeyRejectedWitness ==
    \E i \in 1..Len(history) :
        /\ ConstructsUndeclared(i)
        /\ i > 1
        /\ history[i - 1].op = "load"
        /\ history[i - 1].exc = ""
        /\ history[i].log[1].message = "Found additional attributes"

\* some node of the tree carries the tag of a registered class
RECURSIVE HasClassTag(_)
HasClassTag(n) ==
    \/ n.tag \in RegisteredTags
    \/ n.kind = "sequence" /\ \E j \in 1..Len(n.items) : HasClassTag(n.items[j])
    \/ n.kind = "mapping"
       /\ \E j \in 1..Len(n.items) :
              HasClassTag(n.items[j].key) \/ HasClassTag(n.items[j].val)

\* the value is or holds an instance of a user class, enum or user string
RECURSIVE HoldsInstance(_)
HoldsInstance(v) ==
    \/ v.py = "object"
    \/ \E j \in 1..Len(v.items) : HoldsInstance(v.items[j].val)

\* call i is a Constructor call that got as far as stripping the node
StripsUndeclared(i) ==
    /\ history[i].op = "construct"
    /\ MappingConstructed(history[i].before)
    /\ history[i].before.kind = "mapping"
    /\ \A j \in 1..Len(history[i].before.items) :
           history[i].before.items[j].key.tag = TagStr

\* C17: once Constructor has stripped the node, no node under a key that
\* is no declared attribute carries the tag of a registered class, at any
\* depth, the values under declared keys have the tag they had, and the
\* overflow slot of the object made holds no instance of a registered
\* class
OverflowHoldsNoInstance ==
    \A i \in 1..Len(history) :
        StripsUndeclared(i)
        => LET cls == RegisteredClass(history[i].before.tag)
               made == history[i].log[1].value
           IN  /\ \A j \in 1..Len(history[i].after.items) :
                      IF Contains(DeclaredAttributes(cls),
                                  history[i].after.items[j].key.value)
                      THEN history[i].after.items[j].val.tag
                               = history[i].before.items[j].val.tag
                      ELSE ~HasClassTag(history[i].after.items[j].val)
               /\ history[i].exc = "" /\ HasOverflowSlot(cls)
                  => ~HoldsInstance(getattr(made, SlotOf(cls)))

(***************************************************************************)
(* The mapping an object is represented as                                 *)
(***************************************************************************)
\* the mapping the representer made, as it was before sweetening
BeforeSweetening(call) ==
    IF call.log = <<>> THEN call.after ELSE call.log[1].seen

\* call i represents an object of a class that Representer represents
RepresentsObject(i) ==
    /\ history[i].op = "represent"
    /\ history[i].data.py = "object"
    /\ history[i].data.cls \in RegisteredClasses
    /\ ~Classes(history[i].data.cls).enum
    /\ ~Classes(history[i].data.cls).stringlike

\* the mapping has the entries, in their order, from position first on
HasEntriesAt(m, first, entries) ==
    \A k \in 1..Len(entries) :
        /\ m.items[first + k].key = ScalarNode(TagStr, entries[k].key)
        /\ m.items[first + k].val = RepresentData(entries[k].val).node

\* the parameters of __init__ with the object's attributes of their names
ParameterEntries(data) ==
    LET names == SelectSeq(Tail(Classes(data.cls).args),
                           LAMBDA a : a # "_yatiml_extra")
    IN  [k \in 1..Len(names) |-> Entry(names[k], getattr(data, names[k]))]

OverflowEntries(data) ==
    IF Contains(Classes(data.cls).args, "_yatiml_extra")
    THEN getattr(data, "_yatiml_extra").items ELSE <<>>

\* the private fields of the object under their public names
AccessorEntries(data) ==
    <<Entry("a", getattr(data, "__a")), Entry("b", getattr(data, "__b"))>>

\* C18: without _yatiml_attributes the mapping has the parameters of
\* __init__ other than self and _yatiml_extra as keys, in the order of the
\* signature, with the object's attributes as values, then the entries of
\* _yatiml_extra in their order, and no key _yatiml_extra; with
\* _yatiml_attributes the mapping has what it returns, and representation
\* raises when it returns None
DefaultRepresentation ==
    \A i \in 1..Len(history) :
        RepresentsObject(i)
        => LET data == history[i].data
               m == BeforeSweetening(history[i])
           IN  IF AttributesHook(data.cls) = "None"
               THEN history[i].exc # "" /\ history[i].after = NotANode
               ELSE IF AttributesHook(data.cls) = "dict"
               THEN /\ m.kind = "mapping"
                    /\ Len(m.items) = 2
                    /\ HasEntriesAt(m, 0, AccessorEntries(data))
               ELSE history[i].exc = "" \/ history[i].log # <<>>
                    => /\ m.kind = "mapping"
                       /\ Len(m.items) = Len(ParameterEntries(data))
                                            + Len(OverflowEntries(data))
                       /\ HasEntriesAt(m, 0, ParameterEntries(data))
                       /\ HasEntriesAt(m, Len(ParameterEntries(data)),
                                       OverflowEntries(data))
                       /\ ~has_attribute(m, "_yatiml_extra")

\* an object with two entries in _yatiml_extra was represented
DefaultRepresentationWitness ==
    \E i \in 1..Len(history) :
        /\ RepresentsObject(i)
        /\ AttributesHook(history[i].data.cls) = ""
        /\ history[i].exc = ""
        /\ Len(OverflowEntries(history[i].data)) = 2
        /\ Len(history[i].after.items) = 3

(***************************************************************************)
(* Loading what was dumped                                                 *)
(***************************************************************************)
\* the node has the shape the representer of the class makes: a string
\* scalar for an enum or a user string, else an untagged mapping with
\* every parameter of __init__ as key and, unless the class has
\* _yatiml_extra, no other key
Canonical(n, cls) ==
    IF Classes(cls).enum \/ Classes(cls).stringlike
    THEN n.kind = "scalar" /\ n.tag = TagStr
    ELSE /\ n.kind = "mapping"
         /\ n.tag = TagMap
         /\ \A k \in 2..Len(Classes(cls).args) :
                Classes(cls).args[k] # "_yatiml_extra"
                => has_attribute(n, Classes(cls).args[k])
         /\ \/ Contains(Classes(cls).args, "_yatiml_extra")
            \/ \A j \in 1..Len(n.items) :
                   Contains(Classes(cls).args, n.items[j].key.value)

\* the sweeten hook of the class, if it has one, sets an attribute that
\* its desugar hook removes
SweetenUndone(name) ==
    \/ SweetenHook(name) = NoHook
    \/ /\ SweetenHook(name).op = "set_attribute"
       /\ Classes(name).savorize
              = RemoveAttributeHook(SweetenHook(name).attribute)

\* the hooks of the class and of its registered ancestors undo each other
\* and _yatiml_attributes, if there is one, returns the attributes
HooksUndoEachOther(cls) ==
    /\ AttributesHook(cls) # "None"
    /\ \A name \in RegisteredClasses :
           name = cls \/ RegisteredAncestor(name, cls) => SweetenUndone(name)

\* the same class and the same attributes with the same values
SameFields(o1, o2) ==
    /\ o1.py = o2.py
    /\ o1.cls = o2.cls
    /\ o1.v = o2.v
    /\ {o1.items[j] : j \in 1..Len(o1.items)}
           = {o2.items[j] : j \in 1..Len(o2.items)}

\* call i loads a canonical node as a class whose hooks undo each other,
\* and call i + 1 constructs an object of that class from it
ConstructsFromCanonical(i) ==
    /\ i + 1 <= Len(history)
    /\ history[i].op = "load"
    /\ history[i + 1].op = "construct"
    /\ history[i + 1].exc = ""
    /\ history[i + 1].log[1].value.py = "object"
    /\ Canonical(history[i].before, history[i + 1].log[1].value.cls)
    /\ HooksUndoEachOther(history[i + 1].log[1].value.cls)

RECURSIVE Places(_)
Places(e) ==
    {<<>>} \cup UNION {{<<i>> \o p : p \in Places(e.causes[i])} :
                          i \in 1..Len(e.causes)}

RECURSIVE CauseAt(_, _)
CauseAt(e, p) == IF p = <<>> THEN e ELSE CauseAt(e.causes[p[1]], Tail(p))

LeafPlaces(e) == {p \in Places(e) : CauseAt(e, p).causes = <<>>}
InnerPlaces(e) == Places(e) \ LeafPlaces(e)

\* place p comes before place q in the tree, for two different leaves
ComesBefore(p, q) ==
    \E k \in 1..Len(p) :
        /\ k <= Len(q)
        /\ p[k] < q[k]
        /\ \A j \in 1..(k - 1) : p[j] = q[j]

\* the first leaf of the tree with this message
FirstLeafWith(e, m) ==
    CHOOSE p \in LeafPlaces(e) :
        /\ CauseAt(e, p).msg = m
        /\ \A q \in LeafPlaces(e) :
               CauseAt(e, q).msg = m /\ q # p => ComesBefore(p, q)

LeafMessages(e) == {CauseAt(e, p).msg : p \in LeafPlaces(e)}
InnerMessages(e) == {CauseAt(e, p).msg : p \in InnerPlaces(e)}

FormatCalls == {i \in 1..Len(history) : history[i].op = "format"}

\* C20: format_rec_error shows exactly the messages of the leaves of the
\* failure tree, each once and in the order of their first occurrence, in
\* the single-error form when there is one distinct leaf message and in the
\* multiple-alternatives form otherwise, and shows no message of an inner
\* cause
FailureRendering ==
    \A i \in FormatCalls :
        LET e == history[i].err
            out == history[i].log[1]
            shown == out.messages
        IN  /\ {shown[j] : j \in 1..Len(shown)} = LeafMessages(e)
            /\ \A j, k \in 1..Len(shown) : shown[j] = shown[k] => j = k
            /\ \A j, k \in 1..Len(shown) :
                   j < k => ComesBefore(FirstLeafWith(e, shown[j]),
                                        FirstLeafWith(e, shown[k]))
            /\ out.heading = IF Cardinality(LeafMessages(e)) = 1
                             THEN SingleErrorForm
                             ELSE MultipleAlternativesForm
            /\ \A m \in InnerMessages(e) : ~Contains(shown, m)

\* a failure with inner causes, in which one leaf message occurs twice and
\* another one once, was rendered
FailureRenderingWitness ==
    \E i \in FormatCalls :
        LET e == history[i].err
        IN  /\ InnerPlaces(e) # {}
            /\ Cardinality(LeafMessages(e)) > 1
            /\ Cardinality(LeafPlaces(e)) > Cardinality(LeafMessages(e))

\* a failure with inner causes and one distinct leaf message was rendered
SingleLeafRendered ==
    \E i \in FormatCalls :
        /\ InnerPlaces(history[i].err) # {}
        /\ history[i].log[1].heading = SingleErrorForm

(***************************************************************************)
(* The types and the error recognize() returns together                    *)
(***************************************************************************)
RecognizeReturns == {i \in 1..Len(history) : history[i].op = "recognize" /\ history[i].exc = ""}

\* C21: recognize() returns no type together with an error that has a
\* message, several types together with an error that has a message, and
\* exactly one type together with REC_OK
ResultDiagnosticPairing ==
    \A i \in RecognizeReturns :
        /\ Cardinality(history[i].types) = 0 => history[i].err.msg.text # ""
        /\ Cardinality(history[i].types) > 1 => history[i].err.msg.text # ""
        /\ Cardinality(history[i].types) = 1 => history[i].err = REC_OK

\* a list was recognized as several types, with the message of its
\* ambiguous item
ResultDiagnosticPairingWitness ==
    \E i \in RecognizeReturns :
        /\ Cardinality(history[i].types) > 1
        /\ is_generic_sequence(expected)
        /\ history[i].err.msg.text # ""

(***************************************************************************)
(* A node rewritten by the functions of helpers.Node, as a desugar or      *)
(* sweeten hook does with the node it is given                             *)
(***************************************************************************)
MaxRewrites == 2    \* calls of Node functions on one node

\* the items of a sequence attribute: mappings with a string or int id
ItemMappings ==
    {MappingNode(TagMap, <<Pair(StrNode("id"), StrNode("p"))>>),
     MappingNode(TagMap, <<Pair(StrNode("id"), StrNode("q"))>>),
     MappingNode(TagMap, <<Pair(StrNode("id"), StrNode("p")),
                           Pair(StrNode("v"), IntNode("1"))>>),
     MappingNode(TagMap, <<Pair(StrNode("v"), IntNode("2")),
                           Pair(StrNode("id"), StrNode("q")),
                           Pair(StrNode("w"), IntNode("3"))>>),
     MappingNode(TagMap, <<Pair(StrNode("id"), IntNode("1"))>>)}

\* the values of the entries of a mapping attribute
EntryValues ==
    {MappingNode(TagMap, <<Pair(StrNode("w"), IntNode("3"))>>),
     MappingNode(TagMap, <<Pair(StrNode("id"), StrNode("old"))>>),
     IntNode("5")}

AttributeNames == {"a", "a_b", "a-b"}

DistinctKeys(pairs) ==
    \A i, j \in 1..Len(pairs) : pairs[i].key.value = pairs[j].key.value => i = j

RewrittenNodes ==
    {MappingNode(TagMap, <<Pair(StrNode("items"), SequenceNode(TagSeq, items))>>) :
        items \in SeqsUpTo(ItemMappings, MaxItems)}
    \cup {MappingNode(TagMap, <<Pair(StrNode("items"), MappingNode(TagMap, entries))>>) :
            entries \in {e \in SeqsUpTo({Pair(StrNode(k), v) : k \in {"k1", "k2"},
                                                              v \in EntryValues},
                                        MaxEntries) : DistinctKeys(e)}}
    \cup {MappingNode(tag, pairs) :
            tag \in {TagMap, "!Super"},
            pairs \in {e \in SeqsUpTo({Pair(StrNode(k), IntNode("1")) :
                                          k \in AttributeNames}, MaxEntries) :
                          DistinctKeys(e)}}
    \cup {StrNode("x"), ScalarNode("!Color", "red"), ScalarNode("!MyStr", "x"),
          SequenceNode(TagSeq, <<IntNode("1")>>),
          SequenceNode("!Super", <<IntNode("1")>>)}

ScalarValues ==
    {Str("x"), IntValue("42"), Value("float", "", "1.5", <<>>),
     BoolValue("True"), BoolValue("False"), NoneValue}

RewriteInit ==
    /\ registry = add_to_loader(<<>>)
    /\ expected = AnyType
    /\ node \in RewrittenNodes
    /\ object = NoObject
    /\ phase = "node"
    /\ history = <<>>
    /\ dumper = NewDumper(<<>>)

\* the arguments of a call
Args(attribute, key_attribute, value_attribute, strict, value) ==
    [attribute |-> attribute, key_attribute |-> key_attribute,
     value_attribute |-> value_attribute, strict |-> strict, value |-> value]

Rewriting(op, args, r) ==
    /\ node' = r.node
    /\ history' = Append(history,
           Call(op, node, {}, REC_OK, r.exc, r.node, <<args>>))
    /\ UNCHANGED <<registry, expected, phase, object, dumper>>

CanRewrite == phase = "node" /\ Len(history) < MaxRewrites

SeqAttributeToMap ==
    /\ CanRewrite
    /\ node.kind = "mapping"
    /\ \E value_attribute \in {NotGiven, "v"}, strict \in BOOLEAN :
           Rewriting("seq_attribute_to_map",
                     Args("items", "id", value_attribute, strict, NoObject),
                     seq_attribute_to_map(node, "items", "id", value_attribute,
                                          strict))

MapAttributeToSeq ==
    /\ CanRewrite
    /\ node.kind = "mapping"
    /\ \E value_attribute \in {NotGiven, "v"} :
           Rewriting("map_attribute_to_seq",
                     Args("items", "id", value_attribute, TRUE, NoObject),
                     map_attribute_to_seq(node, "items", "id", value_attribute))

SetValue ==
    /\ CanRewrite
    /\ \E value \in ScalarValues :
           Rewriting("set_value", Args("", "", NotGiven, TRUE, value),
                     Left(SetValueTo(node, value), ""))

SetAttribute ==
    /\ CanRewrite
    /\ node.kind = "mapping"
    /\ \E attribute \in AttributeNames, value \in {Str("x"), NoneValue} :
           Rewriting("set_attribute",
                     Args(attribute, "", NotGiven, TRUE, value),
                     Left(SetAttributeTo(node, attribute, ValueNode(value)), ""))

RemoveAttribute ==
    /\ CanRewrite
    /\ node.kind = "mapping"
    /\ \E attribute \in AttributeNames :
           Rewriting("remove_attribute",
                     Args(attribute, "", NotGiven, TRUE, NoObject),
                     Left(remove_attribute(node, attribute), ""))

\* rename_attribute(attribute, new_name): the new name is kept in value
RenameAttribute ==
    /\ CanRewrite
    /\ node.kind = "mapping"
    /\ \E attribute \in AttributeNames, new_name \in AttributeNames :
           Rewriting("rename_attribute",
                     Args(attribute, "", NotGiven, TRUE, Str(new_name)),
                     Left(rename_attribute(node, attribute, new_name), ""))

DashesToUndersInKeys ==
    /\ CanRewrite
    /\ node.kind = "mapping"
    /\ Rewriting("dashes_to_unders_in_keys",
                 Args("", "", NotGiven, TRUE, NoObject),
                 Left(dashes_to_unders_in_keys(node), ""))

UndersToDashesInKeys ==
    /\ CanRewrite
    /\ node.kind = "mapping"
    /\ Rewriting("unders_to_dashes_in_keys",
                 Args("", "", NotGiven, TRUE, NoObject),
                 Left(unders_to_dashes_in_keys(node), ""))

RewriteNext ==
    \/ SeqAttributeToMap \/ MapAttributeToSeq \/ SetValue \/ SetAttribute
    \/ RemoveAttribute \/ RenameAttribute \/ DashesToUndersInKeys
    \/ UndersToDashesInKeys

RewriteSpec == RewriteInit /\ [][RewriteNext]_vars

(***************************************************************************)
(* Sequences turned into mappings                                          *)
(***************************************************************************)
Range(s) == {s[j] : j \in 1..Len(s)}

\* call i is seq_attribute_to_map on an attribute that is a sequence in
\* which every item has the key attribute
ReshapesSequence(i) ==
    /\ history[i].op = "seq_attribute_to_map"
    /\ ~GetAttributeRaises(history[i].before, history[i].log[1].attribute)
    /\ get_attribute(history[i].before, history[i].log[1].attribute).kind
           = "sequence"
    /\ \A item \in Range(get_attribute(history[i].before,
                                       history[i].log[1].attribute).items) :
           ~GetAttributeRaises(item, history[i].log[1].key_attribute)

\* the nodes under the key attribute of the items, in item order
Discriminators(i) ==
    LET seq == get_attribute(history[i].before, history[i].log[1].attribute)
    IN  [j \in 1..Len(seq.items) |->
            get_attribute(seq.items[j], history[i].log[1].key_attribute)]

DuplicateDiscriminators(i) ==
    \E j, k \in 1..Len(Discriminators(i)) :
        j # k /\ Discriminators(i)[j].value = Discriminators(i)[k].value

\* C22: with two items of the same discriminator value, seq_attribute_to_map
\* raises SeasoningError if strict and returns if not, and leaves the node
\* as it was; with distinct values the attribute becomes a mapping with the
\* discriminators as keys, in item order, whose values do not have the key
\* attribute
SeqAttributeToMapReshapes ==
    \A i \in 1..Len(history) :
        ReshapesSequence(i)
        => IF DuplicateDiscriminators(i)
           THEN /\ history[i].exc
                       = IF history[i].log[1].strict THEN "SeasoningError" ELSE ""
                /\ history[i].after = history[i].before
           ELSE /\ history[i].exc = ""
                /\ LET made == get_attribute(history[i].after,
                                             history[i].log[1].attribute)
                   IN  /\ made.kind = "mapping"
                       /\ [j \in 1..Len(made.items) |-> made.items[j].key]
                              = Discriminators(i)
                       /\ \A j \in 1..Len(made.items) :
                              made.items[j].val.kind = "mapping"
                              => ~has_attribute(made.items[j].val,
                                                history[i].log[1].key_attribute)

\* the same, for the sequences whose discriminators are strings and the
\* calls without a value attribute
SeqAttributeToMapOfStrings ==
    \A i \in 1..Len(history) :
        /\ ReshapesSequence(i)
        /\ \A j \in 1..Len(Discriminators(i)) : Discriminators(i)[j].tag = TagStr
        /\ history[i].log[1].value_attribute = NotGiven
        => IF DuplicateDiscriminators(i)
           THEN /\ history[i].exc
                       = IF history[i].log[1].strict THEN "SeasoningError" ELSE ""
                /\ history[i].after = history[i].before
           ELSE /\ history[i].exc = ""
                /\ LET made == get_attribute(history[i].after,
                                             history[i].log[1].attribute)
                   IN  /\ made.kind = "mapping"
                       /\ [j \in 1..Len(made.items) |-> made.items[j].key]
                              = Discriminators(i)
                       /\ \A j \in 1..Len(made.items) :
                              /\ made.items[j].val.kind = "mapping"
                              /\ ~has_attribute(made.items[j].val,
                                                history[i].log[1].key_attribute)

\* a sequence of two items with the same int discriminator was reshaped
\* without strict
LenientOnIntDuplicates ==
    \E i \in 1..Len(history) :
        /\ ReshapesSequence(i)
        /\ DuplicateDiscriminators(i)
        /\ ~history[i].log[1].strict
        /\ \A j \in 1..Len(Discriminators(i)) : Discriminators(i)[j].tag = TagInt

LeftByHook(call) ==
    IF ChangesInPlace(Classes(call.class).savorize) THEN call.produced
    ELSE call.seen

\* the top node of load call i once its hooks have run
TopSavorized(i) ==
    LET e == history[i].log[1]
        rec == Recognize(history[i].before, e.expected).node
        tagged == [rec EXCEPT !.tag = type_to_tag(CHOOSE t \in e.types : TRUE)]
    IN  IF e.hooks = <<>> THEN tagged ELSE LeftByHook(e.hooks[Len(e.hooks)])

\* the attributes of the expected class that the savorized top node has
PresentAttributes(i) ==
    LET e == history[i].log[1]
    IN  SelectSeq(class_subobjects(e.expected.name),
                  LAMBDA a : has_attribute(TopSavorized(i), a.name))

\* the node's hooks were given the recognized node, tagged as its type
HooksSeeTaggedNode(i) ==
    LET c == history[i]
        e == c.log[1]
        rec == Recognize(c.before, e.expected).node
    IN  e.hooks # <<>> =>
            /\ Cardinality(e.types) = 1
            /\ e.hooks[1].seen =
                   [rec EXCEPT !.tag = type_to_tag(CHOOSE t \in e.types : TRUE)]

\* the children processed are the attributes of the savorized node, each
\* recognized as the hooks left it
ChildrenAfterHooks(i) ==
    LET c == history[i]
        e == c.log[1]
        present == PresentAttributes(i)
    IN  c.exc = "" /\ e.expected.t = "class" /\ e.hooks # <<>> =>
            /\ Len(c.log) = 1 + Len(present)
            /\ \A k \in 1..Len(present) :
                   /\ c.log[1 + k].expected = present[k].type
                   /\ c.log[1 + k].types =
                          Recognize(get_attribute(TopSavorized(i),
                                                  present[k].name),
                                    present[k].type).types

\* a node recognized as no type or as several ends the load as the
\* recognizer left it: no hook ran on it, nothing was processed after it
UnrecognizedLeftAlone(i) ==
    LET c == history[i]
    IN  /\ \A j \in 1..Len(c.log) :
               Cardinality(c.log[j].types) # 1 =>
                   /\ c.log[j].hooks = <<>>
                   /\ j = Len(c.log)
                   /\ c.exc # ""
        /\ c.log # <<>> /\ Cardinality(c.log[1].types) # 1 =>
               c.after = Recognize(c.before, c.log[1].expected).node

SetValuePostcondition ==
    \A i \in Calls("set_value") :
        /\ history[i].after.kind = "scalar"
        /\ is_scalar(history[i].after, history[i].log[1].value.py)

\* the postcondition on the nodes that carry a tag of YAML itself
SetValueOnBuiltInTag ==
    \A i \in Calls("set_value") :
        StartsWithYamlOrg(history[i].before.tag) =>
            /\ history[i].after.kind = "scalar"
            /\ is_scalar(history[i].after, history[i].log[1].value.py)

\* on a node tagged as a class the node becomes a scalar that keeps the tag
SetValueKeepsClassTag ==
    \A i \in Calls("set_value") :
        ~StartsWithYamlOrg(history[i].before.tag) =>
            /\ history[i].after.kind = "scalar"
            /\ history[i].after.tag = history[i].before.tag
            /\ ~is_scalar(history[i].after, history[i].log[1].value.py)


(***************************************************************************)
(* map_attribute_to_seq                                                    *)
(***************************************************************************)
\* call i replaced the mapping of the attribute by the complete sequence of
\* records: one per entry, in entry order, each carrying the key attribute
CompleteSequence(i) ==
    LET c == history[i]
        entries == get_attribute(c.before, c.log[1].attribute).items
        records == get_attribute(c.after, c.log[1].attribute)
    IN  /\ has_attribute(c.after, c.log[1].attribute)
        /\ records.kind = "sequence"
        /\ Len(records.items) = Len(entries)
        /\ \A k \in 1..Len(entries) :
               /\ records.items[k].kind = "mapping"
               /\ has_attribute(records.items[k], c.log[1].key_attribute)
               /\ get_attribute(records.items[k], c.log[1].key_attribute).value
                      = entries[k].key.value

\* C26: map_attribute_to_seq is all-or-nothing: a call either replaces the
\* attribute's mapping by the complete sequence of records or leaves the
\* whole node, every entry's sub-mapping included, exactly as it was.
MapAttributeToSeqAllOrNothing ==
    \A i \in Calls("map_attribute_to_seq") :
        history[i].after = history[i].before \/ CompleteSequence(i)

\* with a value attribute given, the call is all-or-nothing
MapAttributeToSeqWithValueAttribute ==
    \A i \in Calls("map_attribute_to_seq") :
        history[i].log[1].value_attribute # NotGiven =>
            history[i].after = history[i].before \/ CompleteSequence(i)


(***************************************************************************)
(* Key uniqueness under the rewriting helpers                              *)
(***************************************************************************)
KeyHelpers ==
    {"set_attribute", "remove_attribute", "rename_attribute",
     "dashes_to_unders_in_keys", "unders_to_dashes_in_keys"}

\* the calls so far are calls of helpers in ops on a mapping node that
\* started with pairwise distinct keys
OnlyCallsOf(ops) ==
    /\ history # <<>>
    /\ \A i \in 1..Len(history) : history[i].op \in ops
    /\ history[1].before.kind = "mapping"
    /\ DistinctKeys(history[1].before.items)

\* the keys are distinct, every attribute the node has can be got, and an
\* attribute just removed is gone
KeysStillUnique ==
    /\ DistinctKeys(node.items)
    /\ \A k \in AttributeNames :
           has_attribute(node, k) => ~GetAttributeRaises(node, k)
    /\ history[Len(history)].op = "remove_attribute" =>
           ~has_attribute(node, history[Len(history)].log[1].attribute)

\* C30: starting from a mapping node whose keys are pairwise distinct, after
\* any sequence of set_attribute, remove_attribute, rename_attribute,
\* dashes_to_unders_in_keys and unders_to_dashes_in_keys calls the keys are
\* still pairwise distinct, so has_attribute(k) implies that get_attribute(k)
\* returns a value, and after remove_attribute(k) has_attribute(k) is false.
KeyUniquenessPreserved == OnlyCallsOf(KeyHelpers) => KeysStillUnique

\* set_attribute and remove_attribute alone keep the keys distinct
SetAndRemoveKeepKeysUnique ==
    OnlyCallsOf({"set_attribute", "remove_attribute"}) => KeysStillUnique

\* a removed attribute that the node still has
RemovedAttributeStillThere ==
    /\ OnlyCallsOf(KeyHelpers)
    /\ history[Len(history)].op = "remove_attribute"
    /\ has_attribute(node, history[Len(history)].log[1].attribute)


(***************************************************************************)
(* How often a hook runs on one node                                       *)
(***************************************************************************)
\* no class's desugar hook was called twice on the node of a log entry
SavorizedOnce(calls) ==
    \A j, k \in 1..Len(calls) :
        SavorizeDefinedBy(calls[j].class) = SavorizeDefinedBy(calls[k].class)
            => j = k

\* no class's sweeten hook was called twice on the node of an object
SweetenedOnce(calls) ==
    \A j, k \in 1..Len(calls) : calls[j].class = calls[k].class => j = k

\* C27: while one node recognized as class C is desugared, and while one
\* object of class C is sweetened, the hook defined by each class among C
\* and its registered ancestors is invoked at most once, also when C has its
\* hook from a base class and when C reaches an ancestor through two bases.
EachHookOnce ==
    /\ \A i \in Calls("load") :
           \A j \in 1..Len(history[i].log) :
               SavorizedOnce(history[i].log[j].hooks)
    /\ \A i \in Calls("represent") : SweetenedOnce(history[i].log)

\* without a hook had from a base and without a shared ancestor every hook
\* runs once
EachHookOnceInATree ==
    registry # Registry("diamond") =>
        /\ \A i \in Calls("load") :
               \A j \in 1..Len(history[i].log) :
                   SavorizedOnce(history[i].log[j].hooks)
        /\ \A i \in Calls("represent") : SweetenedOnce(history[i].log)

\* the desugar hook of Figure ran for Figure and again for Blob
InheritedHookRanTwice ==
    \E i \in Calls("load") :
        /\ history[i].log # <<>>
        /\ Len(history[i].log[1].hooks) = 2
        /\ history[i].log[1].hooks[2].class = "Blob"

\* the sweeten hook of Figure ran through Circle and again through Band
SharedAncestorSweetenedTwice ==
    \E i \in Calls("represent") :
        Cardinality({k \in 1..Len(history[i].log) :
                        history[i].log[k].class = "Figure"}) = 2


(***************************************************************************)
(* Overflow entries under the name of a declared attribute                 *)
(***************************************************************************)
\* the object of call i has a key of a parameter in its overflow slot
OverflowClash(i) ==
    \E k \in 1..Len(OverflowEntries(history[i].data)) :
        \E j \in 1..Len(ParameterEntries(history[i].data)) :
            OverflowEntries(history[i].data)[k].key
                = ParameterEntries(history[i].data)[j].key

\* the keys of the represented mapping are pairwise distinct
RepresentedKeysUnique ==
    \A i \in 1..Len(history) :
        /\ RepresentsObject(i)
        /\ AttributesHook(history[i].data.cls) = ""
        /\ history[i].exc = ""
        => DistinctKeys(BeforeSweetening(history[i]).items)

\* every declared attribute is emitted with the object's value
DeclaredValuesKept(i) ==
    LET m == BeforeSweetening(history[i])
        declared == ParameterEntries(history[i].data)
    IN  \A k \in 1..Len(declared) :
            /\ has_attribute(m, declared[k].key)
            /\ ~GetAttributeRaises(m, declared[k].key)
            /\ get_attribute(m, declared[k].key)
                   = RepresentData(declared[k].val).node

\* C29: for an object without _yatiml_attributes the represented mapping
\* holds every key once and every declared attribute with the object's
\* value of that attribute, also when the overflow slot has an entry under
\* the name of a declared attribute.
DeclaredValuesSurviveOverflow ==
    \A i \in 1..Len(history) :
        /\ RepresentsObject(i)
        /\ AttributesHook(history[i].data.cls) = ""
        /\ history[i].exc = ""
        => /\ DistinctKeys(BeforeSweetening(history[i]).items)
           /\ DeclaredValuesKept(i)

\* without such an entry every declared attribute keeps its value
DeclaredValuesKeptWithoutClash ==
    \A i \in 1..Len(history) :
        /\ RepresentsObject(i)
        /\ AttributesHook(history[i].data.cls) = ""
        /\ history[i].exc = ""
        /\ ~OverflowClash(i)
        => DeclaredValuesKept(i)


(***************************************************************************)
(* The JSON emitter fed by the serializer: yaml.dump(data, Dumper, indent) *)
(* sends the events of each document, well nested, to Dumper.emit, which   *)
(* passes them to emit_json when output_format is 'json'.                  *)
(***************************************************************************)
MaxEvents == 7      \* events sent to one dumper
MaxDepth == 2       \* containers open at a time

\* the values of indent
Indents == {<<>>, <<2>>, <<4>>}

\* the scalars of the documents
ScalarEvents ==
    {ScalarEvent(TagStr, "a"), ScalarEvent(TagBool, "True"),
     ScalarEvent(TagNull, "")}

\* what is open: the document, then each container not yet ended, with the
\* number of nodes it has got
Frame(kind, children) == [kind |-> kind, children |-> children]
WithChild(open) == [open EXCEPT ![Len(open)].children = @ + 1]

\* what is open after an event
OpenAfter(open, event) ==
    IF event.type \in {"SequenceEndEvent", "MappingEndEvent"}
    THEN SubSeq(open, 1, Len(open) - 1)
    ELSE IF event.type = "DocumentEndEvent" THEN <<Frame("document", 0)>>
    ELSE IF event.type = "SequenceStartEvent"
    THEN Append(WithChild(open), Frame("sequence", 0))
    ELSE IF event.type = "MappingStartEvent"
    THEN Append(WithChild(open), Frame("mapping", 0))
    ELSE IF event.type = "ScalarEvent" THEN WithChild(open)
    ELSE open

\* what is open after the first n emit_json calls
RECURSIVE OpenAfterCalls(_)
OpenAfterCalls(n) ==
    IF n = 0 THEN <<Frame("document", 0)>>
    ELSE OpenAfter(OpenAfterCalls(n - 1), history[n].event)

Open == OpenAfterCalls(Len(history))
Innermost == Open[Len(Open)]

\* a node may come: the root of a document, or a node of a container
NodeMayCome == Innermost.kind = "document" => Innermost.children = 0

EmitInit ==
    /\ registry = add_to_loader(<<>>)
    /\ expected = AnyType
    /\ node = NotANode
    /\ object = NoObject
    /\ phase = "emitting"
    /\ history = <<>>
    /\ dumper \in {NewDumper(indent) : indent \in Indents}

\* the strings that a call added to the stream
Written(before, after) ==
    SubSeq(after.stream, Len(before.stream) + 1, Len(after.stream))

\* Dumper.emit(event) with output_format = 'json'
Emitting(event, e) ==
    /\ dumper' = e.dumper
    /\ phase' = IF e.exc = "" THEN "emitting" ELSE "failed"
    /\ history' = Append(history,
           [op |-> "emit_json", event |-> event, exc |-> e.exc,
            written |-> Written(dumper, e.dumper)])
    /\ UNCHANGED <<registry, node, expected, object>>

CanEmit == phase = "emitting" /\ Len(history) < MaxEvents

EmitScalar ==
    /\ CanEmit /\ NodeMayCome
    /\ \E event \in ScalarEvents : Emitting(event, emit_json(dumper, event))

EmitAlias ==
    /\ CanEmit /\ Innermost.kind # "document"
    /\ Emitting(AliasEvent, emit_json(dumper, AliasEvent))

EmitSequenceStart ==
    /\ CanEmit /\ NodeMayCome /\ Len(Open) <= MaxDepth
    /\ Emitting(SequenceStartEvent, emit_json(dumper, SequenceStartEvent))

EmitMappingStart ==
    /\ CanEmit /\ NodeMayCome /\ Len(Open) <= MaxDepth
    /\ Emitting(MappingStartEvent, emit_json(dumper, MappingStartEvent))

EmitSequenceEnd ==
    /\ CanEmit /\ Innermost.kind = "sequence"
    /\ Emitting(SequenceEndEvent, emit_json(dumper, SequenceEndEvent))

\* a mapping ends after a value, never after a key
EmitMappingEnd ==
    /\ CanEmit /\ Innermost.kind = "mapping" /\ Innermost.children % 2 = 0
    /\ Emitting(MappingEndEvent, emit_json(dumper, MappingEndEvent))

EmitDocumentEnd ==
    /\ CanEmit /\ Innermost.kind = "document" /\ Innermost.children = 1
    /\ Emitting(DocumentEndEvent, emit_json(dumper, DocumentEndEvent))

EmitNext ==
    \/ EmitScalar \/ EmitAlias \/ EmitSequenceStart \/ EmitMappingStart
    \/ EmitSequenceEnd \/ EmitMappingEnd \/ EmitDocumentEnd

EmitSpec == EmitInit /\ [][EmitNext]_vars

\* the separator due before the node that call i emits: "," before an item
\* or a key that is not the first of its container, the key-value separator
\* before a value, none before anything else
SeparatorDue(i) ==
    LET open == OpenAfterCalls(i - 1)
        inner == open[Len(open)]
    IN  IF history[i].event.type
               \notin {"ScalarEvent", "SequenceStartEvent", "MappingStartEvent"}
        THEN ""
        ELSE IF inner.kind = "sequence"
        THEN (IF inner.children > 0 THEN "," ELSE "")
        ELSE IF inner.kind = "mapping"
        THEN (IF inner.children % 2 = 1 THEN dumper._kv_sep
              ELSE IF inner.children > 0 THEN "," ELSE "")
        ELSE ""

\* call i wrote the separator first and no separator anywhere else
WroteSeparator(i, separator) ==
    LET written == history[i].written
    IN  /\ separator # "" => written # <<>> /\ written[1] = separator
        /\ \A k \in 1..Len(written) :
               written[k] \in {",", dumper._kv_sep}
                   => k = 1 /\ written[k] = separator

\* C28: for every well-nested sequence of events fed to emit_json the state
\* stack is never empty and is one deeper than the number of open
\* containers; a ',' is written before every sequence item and every mapping
\* key except the first of its container, the key-value separator before
\* every mapping value and nowhere else; and when every container has been
\* closed the stack is the single initial state and the indent is 0.
EmitterStateMachine ==
    phase = "emitting" =>
        /\ dumper._json_state # <<>>
        /\ Len(dumper._json_state) = 1 + (Len(Open) - 1)
        /\ \A i \in 1..Len(history) : WroteSeparator(i, SeparatorDue(i))
        /\ Len(Open) = 1 =>
               dumper._json_state = <<"NONE">> /\ dumper._cur_indent = 0

\* a sequence holding a mapping with an entry and a further item was
\* written and closed, with line breaks
EmitterStateMachineWitness ==
    /\ phase = "emitting"
    /\ Len(history) = 7
    /\ Len(Open) = 1
    /\ dumper._requested_indent # <<>>
    /\ \E i, j, k \in 1..Len(history) :
           /\ history[i].event.type = "MappingEndEvent"
           /\ history[j].written # <<>> /\ history[j].written[1] = ","
           /\ history[k].written # <<>>
           /\ history[k].written[1] = dumper._kv_sep
    /\ history[7].event.type = "SequenceEndEvent"
====
